---- MODULE Spec2Model ----
\* Boundary/halo exchange of src/src/bvals/bvals.cpp: the index-range tables built by
\* InitBoundaryBuffer, the per-block buffers and completion flags of BoundaryValues,
\* and the StartReceiving / LoadAndSend / ReceiveAndSet / WaitSend handlers of the
\* three channels (fluid, field, eflux), with the message-passing layer they call.
EXTENDS Integers, Sequences, FiniteSets, TLC

\* ------------------------------------------------------------------ sizes
\* Ghost width and number of cell-centred components: build-time macros of the code.
NGHOST == 2
NFLUID == 2
\* Largest interior extent per axis drawn for the index-range tables.
MaxNx == 3
\* Handler calls per behaviour of the exchange model: on 2D and 3D blocks, and on
\* 1D blocks.
MaxOps == 2
MaxOps1D == 3

\* ------------------------------------------------------------------ directions
inner_x1 == 0
outer_x1 == 1
inner_x2 == 2
outer_x2 == 3
inner_x3 == 4
outer_x3 == 5
Dirs == 0..5

x1face == 0
x2face == 1
x3face == 2
Faces == 0..2

Channels == {"fluid", "field", "eflux"}

\* The opposite face, as every LoadAndSend computes it.
\* (Variant with the even case wrong: oside = dir.)
OsideBad(dir) == IF dir % 2 = 0 THEN dir ELSE dir - 1
Oside(dir) == IF dir % 2 = 0 THEN dir + 1 ELSE dir - 1

\* r of the constructor: the number of directions that get buffers.
NDirAlloc(n2, n3) == IF n3 > 1 THEN 6 ELSE IF n2 > 1 THEN 4 ELSE 2

\* ------------------------------------------------------------------ index ranges
\* Interior bounds is..ie, js..je, ks..ke as InitBoundaryBuffer derives them.
Is == NGHOST
Ie(n1) == Is + n1 - 1
Js(n2) == IF n2 > 1 THEN NGHOST ELSE 0
Je(n2) == IF n2 > 1 THEN Js(n2) + n2 - 1 ELSE 0
Ks(n3) == IF n3 > 1 THEN NGHOST ELSE 0
Ke(n3) == IF n3 > 1 THEN Ks(n3) + n3 - 1 ELSE 0

\* A range is <<si, ei, sj, ej, sk, ek>>, inclusive.
ZeroRange == <<0, 0, 0, 0, 0, 0>>

\* (Variant whose x2 and x3 slabs cover interior cells only.)
FluidSendSEInterior(n1, n2, n3) ==
  LET is == Is  ie == Ie(n1)  js == Js(n2)  je == Je(n2)  ks == Ks(n3)  ke == Ke(n3)
  IN  [d \in Dirs |->
        CASE d = inner_x1 -> <<is, is + NGHOST - 1, js, je, ks, ke>>
          [] d = outer_x1 -> <<ie - NGHOST + 1, ie, js, je, ks, ke>>
          [] d = inner_x2 -> <<is, ie, js, js + NGHOST - 1, ks, ke>>
          [] d = outer_x2 -> <<is, ie, je - NGHOST + 1, je, ks, ke>>
          [] d = inner_x3 -> <<is, ie, js, je, ks, ks + NGHOST - 1>>
          [] d = outer_x3 -> <<is, ie, js, je, ke - NGHOST + 1, ke>>]
FluidSendSE(n1, n2, n3) ==
  LET is == Is  ie == Ie(n1)  js == Js(n2)  je == Je(n2)  ks == Ks(n3)  ke == Ke(n3)
  IN  [d \in Dirs |->
        CASE d = inner_x1 -> <<is, is + NGHOST - 1, js, je, ks, ke>>
          [] d = outer_x1 -> <<ie - NGHOST + 1, ie, js, je, ks, ke>>
          [] d = inner_x2 -> <<0, ie + NGHOST, js, js + NGHOST - 1, ks, ke>>
          [] d = outer_x2 -> <<0, ie + NGHOST, je - NGHOST + 1, je, ks, ke>>
          [] d = inner_x3 -> <<0, ie + NGHOST, 0, je + NGHOST, ks, ks + NGHOST - 1>>
          [] d = outer_x3 -> <<0, ie + NGHOST, 0, je + NGHOST, ke - NGHOST + 1, ke>>]

\* (Variant whose outer receive ranges are one layer too thick.)
FluidRecvSEBad(n1, n2, n3) ==
  LET is == Is  ie == Ie(n1)  js == Js(n2)  je == Je(n2)  ks == Ks(n3)  ke == Ke(n3)
  IN  [d \in Dirs |->
        CASE d = inner_x1 -> <<is - NGHOST, is - 1, js, je, ks, ke>>
          [] d = outer_x1 -> <<ie + 1, ie + NGHOST + 1, js, je, ks, ke>>
          [] d = inner_x2 -> <<0, ie + NGHOST, js - NGHOST, js - 1, ks, ke>>
          [] d = outer_x2 -> <<0, ie + NGHOST, je + 1, je + NGHOST + 1, ks, ke>>
          [] d = inner_x3 -> <<0, ie + NGHOST, 0, je + NGHOST, ks - NGHOST, ks - 1>>
          [] d = outer_x3 -> <<0, ie + NGHOST, 0, je + NGHOST, ke + 1, ke + NGHOST + 1>>]
FluidRecvSE(n1, n2, n3) ==
  LET is == Is  ie == Ie(n1)  js == Js(n2)  je == Je(n2)  ks == Ks(n3)  ke == Ke(n3)
  IN  [d \in Dirs |->
        CASE d = inner_x1 -> <<is - NGHOST, is - 1, js, je, ks, ke>>
          [] d = outer_x1 -> <<ie + 1, ie + NGHOST, js, je, ks, ke>>
          [] d = inner_x2 -> <<0, ie + NGHOST, js - NGHOST, js - 1, ks, ke>>
          [] d = outer_x2 -> <<0, ie + NGHOST, je + 1, je + NGHOST, ks, ke>>
          [] d = inner_x3 -> <<0, ie + NGHOST, 0, je + NGHOST, ks - NGHOST, ks - 1>>
          [] d = outer_x3 -> <<0, ie + NGHOST, 0, je + NGHOST, ke + 1, ke + NGHOST>>]

\* (Variant whose outer_x2 and outer_x3 counts miss the ghost layers of one side.)
FluidBufsizeBad(n1, n2, n3) ==
  [d \in Dirs |->
    CASE d \in {inner_x1, outer_x1} -> NGHOST * n2 * n3 * NFLUID
      [] d = inner_x2 -> (n1 + 2 * NGHOST) * NGHOST * n3 * NFLUID
      [] d = outer_x2 -> (n1 + NGHOST) * NGHOST * n3 * NFLUID
      [] d = inner_x3 -> (n1 + 2 * NGHOST) * (n2 + 2 * NGHOST) * NGHOST * NFLUID
      [] d = outer_x3 -> (n1 + 2 * NGHOST) * (n2 + NGHOST) * NGHOST * NFLUID]
FluidBufsize(n1, n2, n3) ==
  [d \in Dirs |->
    CASE d \in {inner_x1, outer_x1} -> NGHOST * n2 * n3 * NFLUID
      [] d \in {inner_x2, outer_x2} -> (n1 + 2 * NGHOST) * NGHOST * n3 * NFLUID
      [] d \in {inner_x3, outer_x3} ->
           (n1 + 2 * NGHOST) * (n2 + 2 * NGHOST) * NGHOST * NFLUID]

\* (Variant that gives every component the cell-centred range of the fluid.)
FieldSendSEBad(n1, n2, n3) ==
  [d \in Dirs |-> [f \in Faces |-> FluidSendSE(n1, n2, n3)[d]]]
FieldSendSE(n1, n2, n3) ==
  LET is == Is  ie == Ie(n1)  js == Js(n2)  je == Je(n2)  ks == Ks(n3)  ke == Ke(n3)
      G == NGHOST
  IN  [d \in Dirs |-> [f \in Faces |->
        CASE d = inner_x1 /\ f = x1face -> <<is + 1, is + G, js, je, ks, ke>>
          [] d = inner_x1 /\ f = x2face -> <<is, is + G - 1, js, je + 1, ks, ke>>
          [] d = inner_x1 /\ f = x3face -> <<is, is + G - 1, js, je, ks, ke + 1>>
          [] d = outer_x1 /\ f = x1face -> <<ie - G + 1, ie, js, je, ks, ke>>
          [] d = outer_x1 /\ f = x2face -> <<ie - G + 1, ie, js, je + 1, ks, ke>>
          [] d = outer_x1 /\ f = x3face -> <<ie - G + 1, ie, js, je, ks, ke + 1>>
          [] d = inner_x2 /\ f = x1face -> <<0, ie + G + 1, js, js + G - 1, ks, ke>>
          [] d = inner_x2 /\ f = x2face -> <<0, ie + G, js + 1, js + G, ks, ke>>
          [] d = inner_x2 /\ f = x3face -> <<0, ie + G, js, js + G - 1, ks, ke + 1>>
          [] d = outer_x2 /\ f = x1face -> <<0, ie + G + 1, je - G + 1, je, ks, ke>>
          [] d = outer_x2 /\ f = x2face -> <<0, ie + G, je - G + 1, je, ks, ke>>
          [] d = outer_x2 /\ f = x3face -> <<0, ie + G, je - G + 1, je, ks, ke + 1>>
          [] d = inner_x3 /\ f = x1face -> <<0, ie + G + 1, 0, je + G, ks, ks + G - 1>>
          [] d = inner_x3 /\ f = x2face -> <<0, ie + G, 0, je + G + 1, ks, ks + G - 1>>
          [] d = inner_x3 /\ f = x3face -> <<0, ie + G, 0, je + G, ks + 1, ks + G>>
          [] d = outer_x3 /\ f = x1face -> <<0, ie + G + 1, 0, je + G, ke - G + 1, ke>>
          [] d = outer_x3 /\ f = x2face -> <<0, ie + G, 0, je + G + 1, ke - G + 1, ke>>
          [] d = outer_x3 /\ f = x3face -> <<0, ie + G, 0, je + G, ke - G + 1, ke>>]]

FieldRecvSE(n1, n2, n3) ==
  LET is == Is  ie == Ie(n1)  js == Js(n2)  je == Je(n2)  ks == Ks(n3)  ke == Ke(n3)
      G == NGHOST
  IN  [d \in Dirs |-> [f \in Faces |->
        CASE d = inner_x1 /\ f = x1face -> <<is - G, is - 1, js, je, ks, ke>>
          [] d = inner_x1 /\ f = x2face -> <<is - G, is - 1, js, je + 1, ks, ke>>
          [] d = inner_x1 /\ f = x3face -> <<is - G, is - 1, js, je, ks, ke + 1>>
          [] d = outer_x1 /\ f = x1face -> <<ie + 2, ie + G + 1, js, je, ks, ke>>
          [] d = outer_x1 /\ f = x2face -> <<ie + 1, ie + G, js, je + 1, ks, ke>>
          [] d = outer_x1 /\ f = x3face -> <<ie + 1, ie + G, js, je, ks, ke + 1>>
          [] d = inner_x2 /\ f = x1face -> <<0, ie + G + 1, js - G, js - 1, ks, ke>>
          [] d = inner_x2 /\ f = x2face -> <<0, ie + G, js - G, js - 1, ks, ke>>
          [] d = inner_x2 /\ f = x3face -> <<0, ie + G, js - G, js - 1, ks, ke + 1>>
          [] d = outer_x2 /\ f = x1face -> <<0, ie + G + 1, je + 1, je + G, ks, ke>>
          [] d = outer_x2 /\ f = x2face -> <<0, ie + G, je + 2, je + G + 1, ks, ke>>
          [] d = outer_x2 /\ f = x3face -> <<0, ie + G, je + 1, je + G, ks, ke + 1>>
          [] d = inner_x3 /\ f = x1face -> <<0, ie + G + 1, 0, je + G, ks - G, ks - 1>>
          [] d = inner_x3 /\ f = x2face -> <<0, ie + G, 0, je + G + 1, ks - G, ks - 1>>
          [] d = inner_x3 /\ f = x3face -> <<0, ie + G, 0, je + G, ks - G, ks - 1>>
          [] d = outer_x3 /\ f = x1face -> <<0, ie + G + 1, 0, je + G, ke + 1, ke + G>>
          [] d = outer_x3 /\ f = x2face -> <<0, ie + G, 0, je + G + 1, ke + 1, ke + G>>
          [] d = outer_x3 /\ f = x3face -> <<0, ie + G, 0, je + G, ke + 2, ke + G + 1>>]]

FieldBufsize(n1, n2, n3) ==
  LET G == NGHOST
  IN  [d \in Dirs |->
        CASE d \in {inner_x1, outer_x1} ->
               G * (n2 * n3 + (n2 + 1) * n3 + n2 * (n3 + 1))
          [] d \in {inner_x2, outer_x2} ->
               G * ((n1 + 2 * G) * n3 + (n1 + 2 * G + 1) * n3 + (n1 + 2 * G) * (n3 + 1))
          [] d \in {inner_x3, outer_x3} ->
               G * ((n1 + 2 * G + 1) * (n2 + 2 * G) + (n1 + 2 * G) * (n2 + 2 * G + 1)
                    + (n1 + 2 * G) * (n2 + 2 * G))]

\* eflux_bufsize_ is assigned only for nx2 > 1, and in 2D only for the x1 and x2
\* directions: every other entry keeps the value old it had before the call.
EFluxBufsize(n1, n2, n3, old) ==
  [d \in Dirs |->
    IF n2 = 1 THEN old[d]
    ELSE IF n3 = 1
      THEN CASE d \in {inner_x1, outer_x1} -> (n2 + 1) * 2
             [] d \in {inner_x2, outer_x2} -> (n1 + 1) * 2
             [] OTHER -> old[d]
      ELSE CASE d \in {inner_x1, outer_x1} -> (n2 + 1) * n3 * 2 + n2 * (n3 + 1) * 2
             [] d \in {inner_x2, outer_x2} -> (n1 + 1) * n3 * 2 + n1 * (n3 + 1) * 2
             [] d \in {inner_x3, outer_x3} -> (n1 + 1) * n2 * 2 + n1 * (n2 + 1) * 2]

\* ------------------------------------------------------------------ loops
RangeLen(s, e) == IF e >= s THEN e - s + 1 ELSE 0

\* The cells <<k, j, i>> a loop nest "for k / for j / for i" over the range se
\* visits, in order.
LoopKJI(se) ==
  LET ni == RangeLen(se[1], se[2])
      nj == RangeLen(se[3], se[4])
      nk == RangeLen(se[5], se[6])
  IN  [p \in 1..(nk * nj * ni) |->
        <<se[5] + ((p - 1) \div (nj * ni)),
          se[3] + (((p - 1) \div ni) % nj),
          se[1] + ((p - 1) % ni)>>]

\* Cells <<n, k, j, i>> of the fluid pack/unpack loops: n outermost, then k, j, i.
FluidCells(se) ==
  LET c == LoopKJI(se)
  IN  [p \in 1..(NFLUID * Len(c)) |->
        <<(p - 1) \div Len(c)>> \o c[((p - 1) % Len(c)) + 1]]

\* One loop nest over the array (or array component) a: cells <<a, k, j, i>>.
Seg(a, se) ==
  LET c == LoopKJI(se)
  IN  [p \in DOMAIN c |-> <<a>> \o c[p]]

\* Cells <<f, k, j, i>> of the field pack/unpack loops: x1f, then x2f, then x3f.
FieldCells(ses) ==
  Seg(x1face, ses[x1face]) \o Seg(x2face, ses[x2face]) \o Seg(x3face, ses[x3face])

\* The arrays of the eflux exchange, numbered: fsrc.x1f(X1E2,..), fsrc.x1f(X1E3,..),
\* wsrc.x1f, fsrc.x2f(X2E1,..), fsrc.x2f(X2E3,..), wsrc.x2f, fsrc.x3f(X3E1,..),
\* fsrc.x3f(X3E2,..), wsrc.x3f.
F1E2 == 0
F1E3 == 1
W1 == 2
F2E1 == 3
F2E3 == 4
W2 == 5
F3E1 == 6
F3E2 == 7
W3 == 8

\* Buffer layout of direction dir: the cells read by LoadAndSendEFluxBoundaryBuffer
\* (out = 0: the plane is, ie, js, je, ks, ke) and the cells written by
\* ReceiveAndSetEFluxBoundary (out = 1: the plane one step outside the block).
EFluxCells(dir, n1, n2, n3, out) ==
  LET is == Is  ie == Ie(n1)  js == Js(n2)  je == Je(n2)  ks == Ks(n3)  ke == Ke(n3)
      I == IF dir = inner_x1 THEN is - out ELSE ie + out
      J == IF dir = inner_x2 THEN js - out ELSE je + out
      K == IF dir = inner_x3 THEN ks - out ELSE ke + out
  IN  IF n2 = 1 THEN <<>>
      ELSE IF n3 = 1
        THEN CASE dir \in {inner_x1, outer_x1} ->
                    Seg(F2E3, <<I, I, js, je + 1, ks, ks>>)
                      \o Seg(W2, <<I, I, js, je + 1, ks, ks>>)
               [] dir \in {inner_x2, outer_x2} ->
                    Seg(F1E3, <<is, ie + 1, J, J, ks, ks>>)
                      \o Seg(W1, <<is, ie + 1, J, J, ks, ks>>)
               [] OTHER -> <<>>
        ELSE CASE dir \in {inner_x1, outer_x1} ->
                    Seg(F2E3, <<I, I, js, je + 1, ks, ke>>)
                      \o Seg(W2, <<I, I, js, je + 1, ks, ke>>)
                      \o Seg(F3E2, <<I, I, js, je, ks, ke + 1>>)
                      \o Seg(W3, <<I, I, js, je, ks, ke + 1>>)
               [] dir \in {inner_x2, outer_x2} ->
                    Seg(F1E3, <<is, ie + 1, J, J, ks, ke>>)
                      \o Seg(W1, <<is, ie + 1, J, J, ks, ke>>)
                      \o Seg(F3E1, <<is, ie, J, J, ks, ke + 1>>)
                      \o Seg(W3, <<is, ie, J, J, ks, ke + 1>>)
               [] dir \in {inner_x3, outer_x3} ->
                    Seg(F1E2, <<is, ie + 1, js, je, K, K>>)
                      \o Seg(W1, <<is, ie + 1, js, je, K, K>>)
                      \o Seg(F2E1, <<is, ie, js, je + 1, K, K>>)
                      \o Seg(W2, <<is, ie, js, je + 1, K, K>>)

\* ------------------------------------------------------------------ arrays
\* An array is flat storage addressed through its extents, as AthenaArray is:
\* ncells = n + 2*NGHOST on an active axis, 1 otherwise; face- and edge-centred
\* arrays have one more layer on every axis.
NCells(n) == IF n > 1 THEN n + 2 * NGHOST ELSE 1
FluidAt(x, n1, n2, n3) ==
  ((x[1] * NCells(n3) + x[2]) * NCells(n2) + x[3]) * (n1 + 2 * NGHOST) + x[4] + 1
FaceAt(x, n1, n2, n3) ==
  ((x[1] * (NCells(n3) + 1) + x[2]) * (NCells(n2) + 1) + x[3]) * (n1 + 2 * NGHOST + 1)
    + x[4] + 1
FluidLen(n1, n2, n3) == NFLUID * NCells(n3) * NCells(n2) * (n1 + 2 * NGHOST)
FieldLen(n1, n2, n3) == 3 * (NCells(n3) + 1) * (NCells(n2) + 1) * (n1 + 2 * NGHOST + 1)

\* Storage index of every cell of a cell sequence.
At(c, cells, n1, n2, n3) ==
  [p \in DOMAIN cells |->
    IF c = "fluid" THEN FluidAt(cells[p], n1, n2, n3) ELSE FaceAt(cells[p], n1, n2, n3)]

\* The eflux arrays are kept only where the exchange touches them.
EFluxBox(n1, n2, n3) ==
  UNION {LET c == EFluxCells(d, n1, n2, n3, o)
         IN  {FaceAt(c[p], n1, n2, n3) : p \in DOMAIN c} :
          d \in 0..(NDirAlloc(n2, n3) - 1), o \in {0, 1}}

\* Array contents are symbolic: Val(b, a) is the value block b holds at storage
\* index a before any exchange; Uninit is what an uninitialised buffer entry holds;
\* Physical is what a physical-boundary function writes.
Val(b, a) == b * 10000 + a
Uninit == -1
Physical == -2
FreshBuf(n) == [p \in 1..n |-> Uninit]

\* sendbuf[p++] = src(cell) over the cells at the storage indices at.
\* (Variant that fills the buffer from its far end.)
PackBad(buf, src, at) ==
  [p \in DOMAIN buf |-> IF p <= Len(at) THEN src[at[Len(at) + 1 - p]] ELSE buf[p]]
Pack(buf, src, at) ==
  [p \in DOMAIN buf |-> IF p <= Len(at) THEN src[at[p]] ELSE buf[p]]

\* std::memcpy(dst, src, n * sizeof(Real)).
\* (Variant that copies one element too few.)
MemcpyBad(dst, src, n) == [p \in DOMAIN dst |-> IF p < n THEN src[p] ELSE dst[p]]
Memcpy(dst, src, n) == [p \in DOMAIN dst |-> IF p <= n THEN src[p] ELSE dst[p]]

\* The array elements one unpacking loop writes: storage index -> buffer element,
\* a later write to the same element replacing an earlier one.
RECURSIVE Written(_, _, _, _)
Written(buf, at, lo, hi) ==
  IF lo > hi THEN <<>>
  ELSE IF lo = hi THEN at[lo] :> buf[lo]
  ELSE LET mid == (lo + hi) \div 2
       IN  Written(buf, at, mid + 1, hi) @@ Written(buf, at, lo, mid)

\* dst(cell) = recvbuf[p++] over the cells at the storage indices at.
\* (Variant whose loop stops one element early.)
UnpackBad(dst, buf, at) ==
  LET w == Written(buf, at, 1, Len(at) - 1)
  IN  [a \in DOMAIN dst |-> IF a \in DOMAIN w THEN w[a] ELSE dst[a]]
Unpack(dst, buf, at) ==
  LET w == Written(buf, at, 1, Len(at))
  IN  [a \in DOMAIN dst |-> IF a \in DOMAIN w THEN w[a] ELSE dst[a]]

\* A physical-boundary function fills the ghost cells of its face.
ApplyBoundary(dst, at) ==
  LET w == {at[p] : p \in DOMAIN at}
  IN  [a \in DOMAIN dst |-> IF a \in w THEN Physical ELSE dst[a]]

\* ------------------------------------------------------------------ state
VARIABLES
  nx,              \* block_size of every MeshBlock: <<nx1, nx2, nx3>>
  blocks,          \* gid -> [rank, lid] of each MeshBlock
  neighbor,        \* neighbor[gid][dir] = [gid, lid, rank]; gid = -1: no neighbor
  block_bcs,       \* block_bcs[gid][dir]: the configured boundary code
  mesh_bcs,        \* mesh_bcs[dir]: the boundary code of the mesh face
  MAGNETIC_FIELDS_ENABLED,  \* the build models the magnetic field
  tab,             \* the arguments of the last InitBoundaryBuffer call
  eflux_bufsize_,  \* the one table a call of InitBoundaryBuffer may leave as it was
  idx,             \* idx.send[chan][dir], idx.recv[chan][dir]: the array element of
                   \* every buffer position, as the tables and the array extents give it
  bfunc,           \* bfunc[gid][chan][dir]: FluidBoundary_, FieldBoundary_, EFluxBoundary_
  send, recv,      \* send[gid][chan][dir], recv[gid][chan][dir]: the buffers
  flag,            \* flag[gid][chan][dir]: fluid_flag_[dir][0][0] and its siblings
  req_recv, req_send,  \* request handles: 0 never set, -1 MPI_REQUEST_NULL, h > 0 live
  posts,           \* every receive posted so far, in posting order
  msgs,            \* every message sent so far, in sending order
  u,               \* u[gid][chan]: the arrays the handlers pack from and unpack into
  last,            \* what the step taken last did
  nops,            \* number of handler calls so far
  crashed,         \* the process died (null handler, wait on a garbage request)
  probe,           \* result of the last table probe
  tasks,           \* tasks[gid]: the task list of the block, when it runs one
  pc               \* pc[gid]: number of tasks of its list the block completed

meshVars == <<nx, blocks, neighbor, block_bcs, mesh_bcs, MAGNETIC_FIELDS_ENABLED>>
cfgVars == <<meshVars, tasks, pc>>
tblVars == <<tab, eflux_bufsize_, idx>>
mpiVars == <<req_recv, req_send, posts, msgs>>
vars == <<cfgVars, tblVars, bfunc, send, recv, flag, mpiVars, u, last, nops,
          crashed, probe>>

\* The file-scope tables: all but eflux_bufsize_ are rewritten by every call of
\* InitBoundaryBuffer, so they are a function of its last arguments.
fluid_send_se_ == FluidSendSE(tab[1], tab[2], tab[3])
fluid_recv_se_ == FluidRecvSE(tab[1], tab[2], tab[3])
field_send_se_ == FieldSendSE(tab[1], tab[2], tab[3])
field_recv_se_ == FieldRecvSE(tab[1], tab[2], tab[3])
fluid_bufsize_ == FluidBufsize(tab[1], tab[2], tab[3])
field_bufsize_ == FieldBufsize(tab[1], tab[2], tab[3])

Phases == {0, 1}
Gids == DOMAIN blocks
NoNeighbor == [gid |-> -1, lid |-> -1, rank |-> -1]
ZeroSizes == [d \in Dirs |-> 0]

\* ------------------------------------------------------------------ tags
tag_fluid == 0
tag_field == 1
tag_eflux == 2
PhysOf(c) == CASE c = "fluid" -> tag_fluid [] c = "field" -> tag_field
               [] c = "eflux" -> tag_eflux
CreateMPITag(lid, flg, dir, phys, fb1, fb2) ==
  ((((lid * 2 + flg) * 8 + dir) * 4 + phys) * 2 + fb1) * 2 + fb2

\* ------------------------------------------------------------------ construction
\* The handler the BoundaryValues constructor installs for a boundary code.
BFuncOf(code) ==
  CASE code = 1 -> "Reflect"
    [] code = 2 -> "Outflow"
    [] code \in {-1, 3, 4} -> "NULL"
    [] OTHER -> "throw"

\* Element count of the buffers of channel c, direction d, from given tables.
BufsizeOf(c, d, fl, fd, ef) ==
  CASE c = "fluid" -> fl[d] [] c = "field" -> fd[d] [] c = "eflux" -> ef[d]

\* The constructor allocates fluid and field buffers for the first r directions
\* and eflux buffers for them when nx2 > 1; <<>> stands for "not allocated".
Allocated(c, d, n2, n3) ==
  /\ d < NDirAlloc(n2, n3)
  /\ c = "eflux" => n2 > 1

NoProbe == [op |-> "none", chan |-> "none", dir |-> -1, count |-> 0, size |-> 0]

NoLast ==
  [op |-> "none", blk |-> -1, chan |-> "none", dir |-> -1,
   waited |-> <<>>, unpacked |-> <<>>, handled |-> <<>>, posted |-> <<>>,
   sent |-> <<>>, copied |-> <<>>,
   error |-> <<>>, read |-> <<>>, alloc |-> <<>>, freed |-> <<>>]

\* Two blocks that face each other across the axis ax (0, 1, 2), block 0 on the
\* inner side; every other face is a physical boundary.
PairNeighbor(ranks, ax) ==
  LET lidOf(g) == IF ranks[1] = ranks[2] THEN g ELSE 0
      desc(g) == [gid |-> g, lid |-> lidOf(g), rank |-> ranks[g + 1]]
  IN  [g \in 0..1 |-> [d \in Dirs |->
        IF g = 0 /\ d = 2 * ax + 1 THEN desc(1)
        ELSE IF g = 1 /\ d = 2 * ax THEN desc(0)
        ELSE NoNeighbor]]

\* Boundary codes of the pair: -1 towards the neighbor; reflecting, outflow and
\* user-defined codes on the physical faces.
PairBcs(nbr, n2, n3) ==
  [g \in 0..1 |-> [d \in Dirs |->
    IF nbr[g][d].gid # -1 THEN -1
    ELSE IF g = 0 THEN (IF d % 2 = 0 THEN 1 ELSE 2)
    ELSE (IF d % 2 = 0 THEN 2 ELSE 3)]]

\* The codes of the mesh faces, read off the blocks that lie on them: a block has
\* the code of the mesh face where it has no neighbor. A direction in which every
\* block has a neighbor is periodic.
MeshBcsOf(nbr, bcs) ==
  [d \in Dirs |->
    LET S == {g \in DOMAIN nbr : nbr[g][d].gid = -1}
    IN  IF S = {} THEN 4 ELSE bcs[CHOOSE g \in S : \A h \in S : g <= h][d]]

\* The cells the loops of channel c, direction d visit, packing (out = 0) or
\* unpacking (out = 1), with the tables InitBoundaryBuffer(n) builds.
CellsOf(out, c, d, n) ==
  CASE c = "fluid" -> FluidCells(IF out = 0 THEN FluidSendSE(n[1], n[2], n[3])[d]
                                 ELSE FluidRecvSE(n[1], n[2], n[3])[d])
    [] c = "field" -> FieldCells(IF out = 0 THEN FieldSendSE(n[1], n[2], n[3])[d]
                                 ELSE FieldRecvSE(n[1], n[2], n[3])[d])
    [] c = "eflux" -> EFluxCells(d, n[1], n[2], n[3], out)
\* The array element of every buffer position, for arrays of the extents n; there
\* are no arrays to index before the first MeshBlock exists.
NoIndex ==
  [send |-> [c \in Channels |-> [d \in Dirs |-> <<>>]],
   recv |-> [c \in Channels |-> [d \in Dirs |-> <<>>]]]
IndexTable(n) ==
  [send |-> [c \in Channels |-> [d \in Dirs |->
              At(c, CellsOf(0, c, d, n), n[1], n[2], n[3])]],
   recv |-> [c \in Channels |-> [d \in Dirs |->
              At(c, CellsOf(1, c, d, n), n[1], n[2], n[3])]]]

\* State after InitBoundaryBuffer(n) and the construction of the blocks.
Constructed(n, ranks, nbr, bcs) ==
  LET n1 == n[1]  n2 == n[2]  n3 == n[3]
      fl == FluidBufsize(n1, n2, n3)
      fd == FieldBufsize(n1, n2, n3)
      ef == EFluxBufsize(n1, n2, n3, ZeroSizes)
      G == DOMAIN nbr
      lidOf(g) == Cardinality({h \in G : h < g /\ ranks[h + 1] = ranks[g + 1]})
      bufs == [g \in G |-> [c \in Channels |-> [d \in Dirs |->
                IF Allocated(c, d, n2, n3)
                  THEN FreshBuf(BufsizeOf(c, d, fl, fd, ef)) ELSE <<>>]]]
  IN  /\ nx = n
      /\ blocks = [g \in G |-> [rank |-> ranks[g + 1], lid |-> lidOf(g)]]
      /\ neighbor = nbr
      /\ block_bcs = bcs
      /\ mesh_bcs = MeshBcsOf(nbr, bcs)
      /\ MAGNETIC_FIELDS_ENABLED = TRUE
      /\ tab = n
      /\ eflux_bufsize_ = ef
      /\ idx = IF G = {} THEN NoIndex ELSE IndexTable(n)
      /\ bfunc = [g \in G |-> [c \in Channels |-> [d \in Dirs |->
                   IF d < NDirAlloc(n2, n3) THEN BFuncOf(bcs[g][d]) ELSE "unset"]]]
      /\ send = bufs
      /\ recv = bufs
      /\ flag = [g \in G |-> [c \in Channels |-> [d \in Dirs |-> FALSE]]]
      /\ req_recv = [g \in G |-> [c \in Channels |-> [d \in Dirs |-> 0]]]
      /\ req_send = [g \in G |-> [c \in Channels |-> [d \in Dirs |-> 0]]]
      /\ posts = <<>>
      /\ msgs = <<>>
      /\ u = [g \in G |-> [c \in Channels |->
               CASE c = "fluid" -> [a \in 1..FluidLen(n1, n2, n3) |-> Val(g, a)]
                 [] c = "field" -> [a \in 1..FieldLen(n1, n2, n3) |-> Val(g, a)]
                 [] c = "eflux" -> [a \in EFluxBox(n1, n2, n3) |-> Val(g, a)]]]
      /\ last = NoLast
      /\ nops = 0
      /\ crashed = FALSE
      /\ probe = NoProbe
      /\ pc = [g \in G |-> 0]

\* Geometries of the exchange model: one per dimensionality. The blocks of the 3D
\* pair face each other across x3, on one process.
Geoms == {<<2, 1, 1>>, <<2, 2, 1>>, <<2, 2, 2>>}
RankLayouts == {<<0, 0>>, <<0, 1>>}

Init ==
  \E n \in Geoms, ranks \in RankLayouts, ax \in 0..2 :
    /\ 2 * ax < NDirAlloc(n[2], n[3])
    /\ n[3] > 1 => (ax = 2 /\ ranks = <<0, 0>>)
    /\ Constructed(n, ranks, PairNeighbor(ranks, ax),
                   PairBcs(PairNeighbor(ranks, ax), n[2], n[3]))
    /\ tasks = [g \in 0..1 |-> <<>>]

\* ------------------------------------------------------------------ helpers
Bufsize(c, d) == BufsizeOf(c, d, fluid_bufsize_, field_bufsize_, eflux_bufsize_)
SendCells(c, d) ==
  CASE c = "fluid" -> FluidCells(fluid_send_se_[d])
    [] c = "field" -> FieldCells(field_send_se_[d])
    [] c = "eflux" -> EFluxCells(d, nx[1], nx[2], nx[3], 0)
RecvCells(c, d) ==
  CASE c = "fluid" -> FluidCells(fluid_recv_se_[d])
    [] c = "field" -> FieldCells(field_recv_se_[d])
    [] c = "eflux" -> EFluxCells(d, nx[1], nx[2], nx[3], 1)
SendAt(c, d) == idx.send[c][d]
RecvAt(c, d) == idx.recv[c][d]

ActiveDirs == 0..(NDirAlloc(nx[2], nx[3]) - 1)
\* ndir of the eflux handlers.
EFluxDirs == IF nx[3] > 1 THEN 0..5 ELSE 0..3
MyRank(b) == blocks[b].rank
\* if(pmb->neighbor[dir][0][0].gid==-1): the direction is a physical boundary.
\* (Variant with the test inverted.)
NoNeighborAtBad(b, d) == neighbor[b][d].gid # -1
NoNeighborAt(b, d) == neighbor[b][d].gid = -1
IsLocal(b, d) == neighbor[b][d].gid # -1 /\ neighbor[b][d].rank = MyRank(b)
\* gid!=-1 && rank!=myrank. (Variant without the rank test.)
IsRemoteBad(b, d) == neighbor[b][d].gid # -1
\* (Variant without the gid test.)
IsRemoteAnyRank(b, d) == neighbor[b][d].rank # MyRank(b)
IsRemote(b, d) == neighbor[b][d].gid # -1 /\ neighbor[b][d].rank # MyRank(b)
\* flag_[dir][0][0] = false at the end of ReceiveAndSet.
\* (Variant that leaves the flag as it is.)
ClearFlagBad(f, b, c, d) == f
\* (Variant that clears the flag of the direction on every channel.)
ClearFlagChannels(f, b, c, d) ==
  [f EXCEPT ![b] = [cc \in Channels |-> [@[cc] EXCEPT ![d] = FALSE]]]
ClearFlag(f, b, c, d) == [f EXCEPT ![b][c][d] = FALSE]

\* The walk over the process's block list: the block with this gid, or -1 (NULL).
\* (Variant whose walk starts at the block after the head of the list.)
FindBlockNext(r, g) ==
  IF \E h \in Gids : /\ h = g /\ blocks[h].rank = r
                      /\ \E f \in Gids : f < h /\ blocks[f].rank = r
    THEN g ELSE -1
FindBlock(r, g) ==
  IF \E h \in Gids : h = g /\ blocks[h].rank = r THEN g ELSE -1

Did(op, b, c, d) == [NoLast EXCEPT !.op = op, !.blk = b, !.chan = c, !.dir = d]

\* The directions of the set S in loop order.
DirSeq(S) == SelectSeq(<<0, 1, 2, 3, 4, 5>>, LAMBDA i : i \in S)
IndexOf(sq, x) == CHOOSE k \in DOMAIN sq : sq[k] = x
InSeq(sq, x) == \E k \in DOMAIN sq : sq[k] = x

\* ------------------------------------------------------------------ message layer
\* MPI_Wait(req) returns at once on MPI_REQUEST_NULL and returns on a live request
\* once it completed; on a handle that was never set its behaviour is undefined.
\* (Variant that polls the request once instead of waiting for it.)
RecvDoneBad(h) == TRUE
RecvDone(h) == h = -1 \/ (h > 0 /\ posts[h].done)
SendDone(h) == h = -1 \/ (h > 0 /\ msgs[h].matched)

Matches(h, m) ==
  /\ posts[h].src = msgs[m].src
  /\ posts[h].dst = msgs[m].dst
  /\ posts[h].tag = msgs[m].tag

\* The message layer completes a posted receive with the message that matches it:
\* the oldest pending receive and the oldest pending message of a matching pair.
Deliver ==
  /\ ~crashed
  /\ \E h \in DOMAIN posts, m \in DOMAIN msgs :
       /\ ~posts[h].done /\ ~msgs[m].matched /\ Matches(h, m)
       /\ \A h2 \in 1..(h - 1) : ~(~posts[h2].done /\ Matches(h2, m))
       /\ \A m2 \in 1..(m - 1) : ~(~msgs[m2].matched /\ Matches(h, m2))
       /\ recv' = [recv EXCEPT ![posts[h].blk][posts[h].chan][posts[h].dir] =
                     Memcpy(@, msgs[m].data, Len(msgs[m].data))]
       /\ posts' = [posts EXCEPT ![h].done = TRUE]
       /\ msgs' = [msgs EXCEPT ![m].matched = TRUE]
       /\ last' = Did("Deliver", posts[h].blk, posts[h].chan, posts[h].dir)
  /\ UNCHANGED <<cfgVars, tblVars, bfunc, send, flag, req_recv, req_send, u,
                 nops, crashed, probe>>

\* MPI_Irecv for the directions rd of block b, channel c, phase flg.
Irecvs(b, c, rd, flg) ==
  [k \in DOMAIN rd |->
    [blk |-> b, chan |-> c, dir |-> rd[k], src |-> neighbor[b][rd[k]].rank,
     dst |-> MyRank(b), count |-> Bufsize(c, rd[k]),
     tag |-> CreateMPITag(blocks[b].lid, flg, rd[k], PhysOf(c), 0, 0),
     phase |-> flg, done |-> FALSE]]

\* MPI_Isend of the packed buffer sendbuf of block b, channel c, direction dir.
Isend(b, c, dir, flg, sendbuf) ==
  [src |-> MyRank(b), dst |-> neighbor[b][dir].rank, from |-> <<b, c, dir>>,
   tag |-> CreateMPITag(neighbor[b][dir].lid, flg, Oside(dir), PhysOf(c), 0, 0),
   data |-> SubSeq(sendbuf, 1, Bufsize(c, dir)), phase |-> flg,
   matched |-> FALSE]

\* ------------------------------------------------------------------ fluid, field
\* StartReceivingFluid / StartReceivingField: MPI_Irecv for every remote neighbor.
\* (Variant with a blocking MPI_Recv, which no message can complete yet: the call
\* returns only for a block without remote neighbor.)
StartReceivingBad(c, b, flg) ==
  /\ DirSeq({i \in Dirs : IsRemote(b, i)}) = <<>>
  /\ last' = Did("StartReceiving", b, c, -1)
  /\ UNCHANGED <<tblVars, bfunc, send, recv, flag, req_recv, req_send,
                 posts, msgs, u, crashed, probe>>
StartReceiving(c, b, flg) ==
  LET rd == DirSeq({i \in Dirs : IsRemote(b, i)})
  IN  /\ posts' = posts \o Irecvs(b, c, rd, flg)
      /\ req_recv' = [req_recv EXCEPT ![b][c] = [d \in Dirs |->
                        IF InSeq(rd, d) THEN Len(posts) + IndexOf(rd, d) ELSE @[d]]]
      /\ last' = [Did("StartReceiving", b, c, -1) EXCEPT !.posted = rd]
      /\ UNCHANGED <<tblVars, bfunc, send, recv, flag, req_send, msgs, u,
                     crashed, probe>>

\* LoadAndSendFluidBoundaryBuffer / LoadAndSendFieldBoundaryBuffer.
LoadAndSend(c, b, dir, flg) ==
  LET nb == neighbor[b][dir]
      oside == Oside(dir)
      sendbuf == Pack(send[b][c][dir], u[b][c], SendAt(c, dir))
      pbl == FindBlock(MyRank(b), nb.gid)
  IN  IF NoNeighborAt(b, dir)
        THEN /\ last' = Did("LoadAndSend", b, c, dir)
             /\ UNCHANGED <<send, recv, flag, mpiVars, crashed>>
      ELSE IF nb.rank = MyRank(b)
        THEN IF pbl = -1
               THEN /\ crashed' = TRUE
                    /\ send' = [send EXCEPT ![b][c][dir] = sendbuf]
                    /\ last' = Did("LoadAndSend", b, c, dir)
                    /\ UNCHANGED <<recv, flag, mpiVars>>
               ELSE /\ send' = [send EXCEPT ![b][c][dir] = sendbuf]
                    /\ recv' = [recv EXCEPT ![pbl][c][oside] =
                                  Memcpy(@, sendbuf, Bufsize(c, dir))]
                    /\ flag' = [flag EXCEPT ![pbl][c][oside] = TRUE]
                    /\ last' = [Did("LoadAndSend", b, c, dir) EXCEPT
                                  !.copied = <<<<pbl, oside>>>>]
                    /\ UNCHANGED <<mpiVars, crashed>>
        ELSE /\ send' = [send EXCEPT ![b][c][dir] = sendbuf]
             /\ msgs' = Append(msgs, Isend(b, c, dir, flg, sendbuf))
             /\ req_send' = [req_send EXCEPT ![b][c][dir] = Len(msgs) + 1]
             /\ last' = [Did("LoadAndSend", b, c, dir) EXCEPT !.sent = <<dir>>]
             /\ UNCHANGED <<recv, flag, req_recv, posts, crashed>>

\* ReceiveAndSetFluidBoundary / ReceiveAndSetFieldBoundary. The call is suspended
\* (the action is not enabled) while MPI_Wait has a live, incomplete request.
ReceiveAndSet(c, b, dir) ==
  LET wait == ~flag[b][c][dir] /\ IsRemote(b, dir)
      h == req_recv[b][c][dir]
      set == /\ u' = [u EXCEPT ![b][c] = Unpack(@, recv[b][c][dir], RecvAt(c, dir))]
             /\ flag' = ClearFlag(flag, b, c, dir)
             /\ req_recv' = [req_recv EXCEPT ![b][c][dir] =
                               IF wait /\ h > 0 THEN -1 ELSE @]
             /\ last' = [Did("ReceiveAndSet", b, c, dir) EXCEPT
                           !.waited = IF wait THEN <<dir>> ELSE <<>>,
                           !.unpacked = <<dir>>]
             /\ UNCHANGED crashed
      die == /\ crashed' = TRUE
             /\ last' = [Did("ReceiveAndSet", b, c, dir) EXCEPT
                           !.waited = IF wait THEN <<dir>> ELSE <<>>]
             /\ UNCHANGED <<u, flag, req_recv>>
  IN  IF NoNeighborAt(b, dir)
        THEN IF bfunc[b][c][dir] \in {"NULL", "unset"}
               THEN die
               ELSE /\ u' = [u EXCEPT ![b][c] = ApplyBoundary(@, RecvAt(c, dir))]
                    /\ last' = [Did("ReceiveAndSet", b, c, dir) EXCEPT
                                  !.handled = <<dir>>]
                    /\ UNCHANGED <<flag, req_recv, crashed>>
      ELSE IF wait /\ h = 0
        THEN die \/ set
        ELSE (wait => RecvDone(h)) /\ set

\* WaitSendFluid / WaitSendField: MPI_Wait on the send request of a remote neighbor.
\* (Variant without the rank != -1 test.)
WaitSendBad(c, b, dir) ==
  LET wait == neighbor[b][dir].rank # MyRank(b)
      h == req_send[b][c][dir]
  IN  /\ wait => SendDone(h) \/ h = 0
      /\ req_send' = [req_send EXCEPT ![b][c][dir] = IF wait THEN -1 ELSE @]
      /\ last' = [Did("WaitSend", b, c, dir) EXCEPT
                    !.waited = IF wait THEN <<dir>> ELSE <<>>]
      /\ UNCHANGED crashed
WaitSend(c, b, dir) ==
  LET wait == neighbor[b][dir].rank # -1 /\ neighbor[b][dir].rank # MyRank(b)
      h == req_send[b][c][dir]
      done == /\ req_send' = [req_send EXCEPT ![b][c][dir] =
                                IF wait /\ h > 0 THEN -1 ELSE @]
              /\ last' = [Did("WaitSend", b, c, dir) EXCEPT
                            !.waited = IF wait THEN <<dir>> ELSE <<>>]
              /\ UNCHANGED crashed
      die == /\ crashed' = TRUE
             /\ last' = [Did("WaitSend", b, c, dir) EXCEPT !.waited = <<dir>>]
             /\ UNCHANGED req_send
  IN  IF wait /\ h = 0
        THEN die \/ done
        ELSE (wait => SendDone(h)) /\ done

\* ------------------------------------------------------------------ eflux
\* StartReceivingEFlux: nothing in 1D; else clears the flag of every direction
\* below ndir and posts MPI_Irecv for the remote ones.
\* (Variant without the return on nx2 == 1.)
StartReceivingEFluxBad(b, flg) ==
  LET rd == DirSeq({i \in EFluxDirs : IsRemote(b, i)})
  IN  /\ flag' = [flag EXCEPT ![b]["eflux"] =
                    [d \in Dirs |-> IF d \in EFluxDirs THEN FALSE ELSE @[d]]]
      /\ posts' = posts \o Irecvs(b, "eflux", rd, flg)
      /\ req_recv' = [req_recv EXCEPT ![b]["eflux"] = [d \in Dirs |->
                        IF InSeq(rd, d) THEN Len(posts) + IndexOf(rd, d)
                        ELSE @[d]]]
      /\ last' = [Did("StartReceiving", b, "eflux", -1) EXCEPT !.posted = rd]
StartReceivingEFlux(b, flg) ==
  IF nx[2] = 1
    THEN /\ last' = Did("StartReceiving", b, "eflux", -1)
         /\ UNCHANGED <<flag, req_recv, posts>>
    ELSE LET rd == DirSeq({i \in EFluxDirs : IsRemote(b, i)})
         IN  /\ flag' = [flag EXCEPT ![b]["eflux"] =
                           [d \in Dirs |-> IF d \in EFluxDirs THEN FALSE ELSE @[d]]]
             /\ posts' = posts \o Irecvs(b, "eflux", rd, flg)
             /\ req_recv' = [req_recv EXCEPT ![b]["eflux"] = [d \in Dirs |->
                               IF InSeq(rd, d) THEN Len(posts) + IndexOf(rd, d)
                               ELSE @[d]]]
             /\ last' = [Did("StartReceiving", b, "eflux", -1) EXCEPT !.posted = rd]

\* The send buffers of block b after the packing half of LoadAndSendEFlux.
EFluxPacked(b) ==
  [d \in Dirs |->
    IF d \in EFluxDirs /\ ~NoNeighborAt(b, d)
      THEN Pack(send[b]["eflux"][d], u[b]["eflux"], SendAt("eflux", d))
      ELSE send[b]["eflux"][d]]

\* LoadAndSendEFluxBoundaryBuffer: nothing in 1D; else packs every direction that
\* has a neighbor, then copies or sends each of them in direction order.
LoadAndSendEFlux(b, flg) ==
  IF nx[2] = 1
    THEN /\ last' = Did("LoadAndSend", b, "eflux", -1)
         /\ UNCHANGED <<send, recv, flag, mpiVars, crashed>>
    ELSE LET nd == DirSeq({i \in EFluxDirs : ~NoNeighborAt(b, i)})
             ld == SelectSeq(nd, LAMBDA i : IsLocal(b, i))
             rd == SelectSeq(nd, LAMBDA i : IsRemote(b, i))
             packed == EFluxPacked(b)
             pbl(d) == FindBlock(MyRank(b), neighbor[b][d].gid)
             target(g, d) == {k \in DOMAIN ld : pbl(ld[k]) = g /\ Oside(ld[k]) = d}
         IN  /\ send' = [send EXCEPT ![b]["eflux"] = packed]
             /\ IF \E k \in DOMAIN ld : pbl(ld[k]) = -1
                  THEN /\ crashed' = TRUE
                       /\ last' = Did("LoadAndSend", b, "eflux", -1)
                       /\ UNCHANGED <<recv, flag, mpiVars>>
                  ELSE /\ recv' = [g \in Gids |-> [c \in Channels |-> [d \in Dirs |->
                                    IF c = "eflux" /\ target(g, d) # {}
                                      THEN LET k == CHOOSE k \in target(g, d) : TRUE
                                           IN  Memcpy(recv[g][c][d], packed[ld[k]],
                                                      Bufsize("eflux", ld[k]))
                                      ELSE recv[g][c][d]]]]
                       /\ flag' = [g \in Gids |-> [c \in Channels |-> [d \in Dirs |->
                                    IF c = "eflux" /\ target(g, d) # {}
                                      THEN TRUE ELSE flag[g][c][d]]]]
                       /\ msgs' = msgs \o [k \in DOMAIN rd |->
                                    Isend(b, "eflux", rd[k], flg, packed[rd[k]])]
                       /\ req_send' = [req_send EXCEPT ![b]["eflux"] = [d \in Dirs |->
                                         IF InSeq(rd, d) THEN Len(msgs) + IndexOf(rd, d)
                                         ELSE @[d]]]
                       /\ last' = [Did("LoadAndSend", b, "eflux", -1) EXCEPT
                                     !.sent = rd,
                                     !.copied = [k \in DOMAIN ld |->
                                                   <<pbl(ld[k]), Oside(ld[k])>>]]
                       /\ UNCHANGED <<req_recv, posts, crashed>>

\* The handler-or-unpack half of ReceiveAndSetEFlux over the directions ds, in
\* order, up to the first direction whose handler is a null pointer.
RECURSIVE EFluxSet(_, _, _)
EFluxSet(arr, b, ds) ==
  IF ds = <<>> THEN arr
  ELSE LET d == Head(ds)
       IN  IF ~NoNeighborAt(b, d)
             THEN EFluxSet(Unpack(arr, recv[b]["eflux"][d], RecvAt("eflux", d)),
                           b, Tail(ds))
           ELSE IF bfunc[b]["eflux"][d] \in {"NULL", "unset"} THEN arr
           ELSE EFluxSet(ApplyBoundary(arr, RecvAt("eflux", d)), b, Tail(ds))

\* ReceiveAndSetEFluxBoundary: nothing in 1D; else waits on the receive request of
\* every remote direction, then per direction runs the handler or unpacks, and
\* clears every flag.
ReceiveAndSetEFlux(b) ==
  IF nx[2] = 1
    THEN /\ last' = Did("ReceiveAndSet", b, "eflux", -1)
         /\ UNCHANGED <<u, flag, req_recv, crashed>>
    ELSE LET all == DirSeq(EFluxDirs)
             rd == SelectSeq(all, LAMBDA i : IsRemote(b, i))
             nd == SelectSeq(all, LAMBDA i : ~NoNeighborAt(b, i))
             pd == SelectSeq(all, LAMBDA i : NoNeighborAt(b, i))
             h(d) == req_recv[b]["eflux"][d]
             nulls == {k \in DOMAIN all : /\ NoNeighborAt(b, all[k])
                                          /\ bfunc[b]["eflux"][all[k]]
                                               \in {"NULL", "unset"}}
             first == IF nulls = {} THEN Len(all) + 1
                      ELSE CHOOSE k \in nulls : \A k2 \in nulls : k <= k2
             before(ds) == SelectSeq(ds, LAMBDA i : IndexOf(all, i) < first)
             waits == /\ \A k \in DOMAIN rd : h(rd[k]) # 0 => RecvDone(h(rd[k]))
                      /\ req_recv' = [req_recv EXCEPT ![b]["eflux"] = [d \in Dirs |->
                                        IF InSeq(rd, d) /\ @[d] > 0 THEN -1 ELSE @[d]]]
             sets == /\ u' = [u EXCEPT ![b]["eflux"] = EFluxSet(@, b, all)]
                     /\ flag' = [flag EXCEPT ![b]["eflux"] = [d \in Dirs |->
                                   IF d \in EFluxDirs /\ IndexOf(all, d) < first
                                     THEN FALSE
                                   ELSE IF InSeq(rd, d) THEN TRUE ELSE @[d]]]
                     /\ crashed' = (nulls # {})
                     /\ last' = [Did("ReceiveAndSet", b, "eflux", -1) EXCEPT
                                   !.waited = rd, !.unpacked = before(nd),
                                   !.handled = before(pd)]
             die == /\ crashed' = TRUE
                    /\ last' = [Did("ReceiveAndSet", b, "eflux", -1) EXCEPT
                                  !.waited = rd]
                    /\ UNCHANGED <<u, flag, req_recv>>
         IN  \/ waits /\ sets
             \/ (\E k \in DOMAIN rd : h(rd[k]) = 0) /\ die

\* WaitSendEFlux: nothing in 1D; else MPI_Wait on the send request of every
\* direction below ndir whose neighbor rank is neither -1 nor this process.
WaitSendEFlux(b) ==
  IF nx[2] = 1
    THEN /\ last' = Did("WaitSend", b, "eflux", -1)
         /\ UNCHANGED <<req_send, crashed>>
    ELSE LET rd == DirSeq({i \in EFluxDirs : /\ neighbor[b][i].rank # -1
                                              /\ neighbor[b][i].rank # MyRank(b)})
             h(d) == req_send[b]["eflux"][d]
         IN  \/ /\ \A k \in DOMAIN rd : h(rd[k]) # 0 => SendDone(h(rd[k]))
                /\ req_send' = [req_send EXCEPT ![b]["eflux"] = [d \in Dirs |->
                                  IF InSeq(rd, d) /\ @[d] > 0 THEN -1 ELSE @[d]]]
                /\ last' = [Did("WaitSend", b, "eflux", -1) EXCEPT !.waited = rd]
                /\ UNCHANGED crashed
             \/ /\ \E k \in DOMAIN rd : h(rd[k]) = 0
                /\ crashed' = TRUE
                /\ last' = [Did("WaitSend", b, "eflux", -1) EXCEPT !.waited = rd]
                /\ UNCHANGED req_send

\* ------------------------------------------------------------------ calls
\* A caller (the task list of a block) makes one handler call; the number of
\* calls of a run is bounded, with one call more on the 1D blocks.
Call ==
  /\ ~crashed
  /\ nops < (IF nx[2] = 1 THEN MaxOps1D ELSE MaxOps)
  /\ nops' = nops + 1

StartReceivingFluid ==
  \E b \in Gids, flg \in Phases :
    Call /\ StartReceiving("fluid", b, flg) /\ UNCHANGED cfgVars

StartReceivingField ==
  \E b \in Gids, flg \in Phases :
    Call /\ StartReceiving("field", b, flg) /\ UNCHANGED cfgVars

CallStartReceivingEFlux ==
  \E b \in Gids, flg \in Phases :
    /\ Call
    /\ StartReceivingEFlux(b, flg)
    /\ UNCHANGED <<cfgVars, tblVars, bfunc, send, recv, req_send, msgs, u, crashed,
                   probe>>

LoadAndSendFluidBoundaryBuffer ==
  \E b \in Gids, dir \in ActiveDirs, flg \in Phases :
    /\ Call
    /\ LoadAndSend("fluid", b, dir, flg)
    /\ UNCHANGED <<cfgVars, tblVars, bfunc, u, probe>>

LoadAndSendFieldBoundaryBuffer ==
  \E b \in Gids, dir \in ActiveDirs, flg \in Phases :
    /\ Call
    /\ LoadAndSend("field", b, dir, flg)
    /\ UNCHANGED <<cfgVars, tblVars, bfunc, u, probe>>

LoadAndSendEFluxBoundaryBuffer ==
  \E b \in Gids, flg \in Phases :
    /\ Call
    /\ LoadAndSendEFlux(b, flg)
    /\ UNCHANGED <<cfgVars, tblVars, bfunc, u, probe>>

ReceiveAndSetFluidBoundary ==
  \E b \in Gids, dir \in ActiveDirs :
    /\ Call
    /\ ReceiveAndSet("fluid", b, dir)
    /\ UNCHANGED <<cfgVars, tblVars, bfunc, send, recv, req_send, posts, msgs, probe>>

ReceiveAndSetFieldBoundary ==
  \E b \in Gids, dir \in ActiveDirs :
    /\ Call
    /\ ReceiveAndSet("field", b, dir)
    /\ UNCHANGED <<cfgVars, tblVars, bfunc, send, recv, req_send, posts, msgs, probe>>

ReceiveAndSetEFluxBoundary ==
  \E b \in Gids :
    /\ Call
    /\ ReceiveAndSetEFlux(b)
    /\ UNCHANGED <<cfgVars, tblVars, bfunc, send, recv, req_send, posts, msgs, probe>>

WaitSendFluid ==
  \E b \in Gids, dir \in ActiveDirs :
    /\ Call
    /\ WaitSend("fluid", b, dir)
    /\ UNCHANGED <<cfgVars, tblVars, bfunc, send, recv, flag, req_recv, posts, msgs,
                   u, probe>>

WaitSendField ==
  \E b \in Gids, dir \in ActiveDirs :
    /\ Call
    /\ WaitSend("field", b, dir)
    /\ UNCHANGED <<cfgVars, tblVars, bfunc, send, recv, flag, req_recv, posts, msgs,
                   u, probe>>

CallWaitSendEFlux ==
  \E b \in Gids :
    /\ Call
    /\ WaitSendEFlux(b)
    /\ UNCHANGED <<cfgVars, tblVars, bfunc, send, recv, flag, req_recv, posts, msgs,
                   u, probe>>

Next ==
  \/ StartReceivingFluid
  \/ StartReceivingField
  \/ CallStartReceivingEFlux
  \/ LoadAndSendFluidBoundaryBuffer
  \/ LoadAndSendFieldBoundaryBuffer
  \/ LoadAndSendEFluxBoundaryBuffer
  \/ ReceiveAndSetFluidBoundary
  \/ ReceiveAndSetFieldBoundary
  \/ ReceiveAndSetEFluxBoundary
  \/ WaitSendFluid
  \/ WaitSendField
  \/ CallWaitSendEFlux
  \/ Deliver

Spec == Init /\ [][Next]_vars

\* ------------------------------------------------------------------ index tables
\* The tables on their own: InitBoundaryBuffer is called with extents of a bounded
\* set before any MeshBlock exists, and the loops of LoadAndSend and ReceiveAndSet
\* are run over the tables to count the buffer elements they touch. A run builds
\* the tables, possibly rebuilds them, and then counts one loop.
Extents ==
  {n \in (1..MaxNx) \X (1..MaxNx) \X (1..MaxNx) : n[3] > 1 => n[2] > 1}

InitTable == tasks = <<>> /\ \E n \in Extents : Constructed(n, <<>>, <<>>, <<>>)

\* A further call of InitBoundaryBuffer: every table is rewritten except the
\* entries of eflux_bufsize_ the call returns before.
InitBoundaryBuffer ==
  \E n \in Extents :
    /\ Gids = {}
    /\ probe.op = "none"
    /\ nx' = n
    /\ tab' = n
    /\ eflux_bufsize_' = EFluxBufsize(n[1], n[2], n[3], eflux_bufsize_)
    /\ idx' = NoIndex
    /\ UNCHANGED <<blocks, neighbor, block_bcs, mesh_bcs, MAGNETIC_FIELDS_ENABLED,
                   bfunc, send, recv, flag, mpiVars, u, last, nops, crashed, probe,
                   tasks, pc>>

\* p after the packing loops of LoadAndSend for channel c, direction d.
CountLoadAndSend ==
  \E c \in Channels, d \in Dirs :
    /\ probe.op = "none"
    /\ probe' = [op |-> "LoadAndSend", chan |-> c, dir |-> d,
                 count |-> Len(SendCells(c, d)), size |-> Bufsize(c, d)]
    /\ UNCHANGED <<cfgVars, tblVars, bfunc, send, recv, flag, mpiVars, u, last, nops,
                   crashed>>

\* p after the unpacking loops of ReceiveAndSet for channel c, direction d.
CountReceiveAndSet ==
  \E c \in Channels, d \in Dirs :
    /\ probe.op = "none"
    /\ probe' = [op |-> "ReceiveAndSet", chan |-> c, dir |-> d,
                 count |-> Len(RecvCells(c, d)), size |-> Bufsize(c, d)]
    /\ UNCHANGED <<cfgVars, tblVars, bfunc, send, recv, flag, mpiVars, u, last, nops,
                   crashed>>

NextTable == InitBoundaryBuffer \/ CountLoadAndSend \/ CountReceiveAndSet

SpecTable == InitTable /\ [][NextTable]_vars

\* ------------------------------------------------------------------ tables, rebuilt
\* InitBoundaryBuffer is a free function over file-scope tables that every block
\* shares: here it is called again, with extents of the bounded set, while the
\* blocks of the pair exist, and the loops are counted against the buffers the
\* constructor allocated.
IndexTableOn(t, a) ==
  [send |-> [c \in Channels |-> [d \in Dirs |->
              At(c, CellsOf(0, c, d, t), a[1], a[2], a[3])]],
   recv |-> [c \in Channels |-> [d \in Dirs |->
              At(c, CellsOf(1, c, d, t), a[1], a[2], a[3])]]]

\* Calls of InitBoundaryBuffer made while blocks exist.
MaxRebuild == 1

InitBoundaryBufferLate ==
  \E n \in Extents :
    /\ Gids # {}
    /\ probe.op = "none"
    /\ nops < MaxRebuild
    /\ nops' = nops + 1
    /\ tab' = n
    /\ eflux_bufsize_' = EFluxBufsize(n[1], n[2], n[3], eflux_bufsize_)
    /\ idx' = IndexTableOn(n, nx)
    /\ last' = Did("InitBoundaryBuffer", -1, "none", -1)
    /\ UNCHANGED <<cfgVars, bfunc, send, recv, flag, mpiVars, u, crashed, probe>>

NextRebuild == InitBoundaryBufferLate \/ CountLoadAndSend \/ CountReceiveAndSet

SpecRebuild == Init /\ [][NextRebuild]_vars

\* ------------------------------------------------------------------ task lists
\* The exchange as the blocks' task lists drive it: every block of the pair runs
\* its own list of handler calls in order, for one channel and one phase, against
\* its neighbor direction nd and one physical face pd. A call that is suspended in
\* MPI_Wait keeps its block where it is until the message layer completes the
\* request. The lists are the exchange cycle, the cycle with ReceiveAndSet called
\* twice, the cycle with the send first, and receive and wait on their own.
Task(op, c, d) == [op |-> op, chan |-> c, dir |-> d, flg |-> 0]
TaskList(kind, c, nd, pd) ==
  LET Start == Task("StartReceiving", c, -1)
      Load == Task("LoadAndSend", c, IF c = "eflux" THEN -1 ELSE nd)
      Recv == Task("ReceiveAndSet", c, IF c = "eflux" THEN -1 ELSE nd)
      Phys == Task("ReceiveAndSet", c, pd)
      Wait == Task("WaitSend", c, IF c = "eflux" THEN -1 ELSE nd)
  IN  CASE kind = "cycle" ->
             IF c = "eflux" THEN <<Start, Load, Recv, Wait>>
             ELSE <<Start, Load, Recv, Phys, Wait>>
        [] kind = "twice" -> <<Start, Load, Recv, Recv, Wait>>
        [] kind = "late" -> <<Load, Start, Recv, Wait>>
        [] kind = "bare" -> <<Recv, Wait>>
TaskKinds == {"cycle", "twice", "late", "bare"}

\* The pair with every physical face reflecting or outflow.
CycleBcs(nbr) ==
  [g \in 0..1 |-> [d \in Dirs |->
    IF nbr[g][d].gid # -1 THEN -1 ELSE IF d % 2 = 0 THEN 1 ELSE 2]]

\* Fluid and field cycles on the 1D pair, eflux cycles on the 2D pair.
CycleRuns == {<<<<2, 1, 1>>, "fluid">>, <<<<2, 1, 1>>, "field">>,
              <<<<2, 2, 1>>, "eflux">>}

InitCycle ==
  \E run \in CycleRuns, ranks \in RankLayouts, kind \in TaskKinds :
    /\ Constructed(run[1], ranks, PairNeighbor(ranks, 0),
                   CycleBcs(PairNeighbor(ranks, 0)))
    /\ tasks = [g \in 0..1 |-> TaskList(kind, run[2], 1 - g, g)]

\* The task block b runs next.
NextTask(b) == tasks[b][pc[b] + 1]
HasTask(b) == ~crashed /\ pc[b] < Len(tasks[b])

\* Block b runs the next task of its list.
TaskStep(b) ==
  /\ HasTask(b)
  /\ nops' = nops + 1
  /\ pc' = [pc EXCEPT ![b] = @ + 1]
  /\ LET t == NextTask(b)
     IN  CASE t.op = "StartReceiving" ->
                IF t.chan = "eflux"
                  THEN /\ StartReceivingEFlux(b, t.flg)
                       /\ UNCHANGED <<send, recv, req_send, msgs, u, crashed>>
                  ELSE StartReceiving(t.chan, b, t.flg)
           [] t.op = "LoadAndSend" ->
                /\ IF t.chan = "eflux" THEN LoadAndSendEFlux(b, t.flg)
                   ELSE LoadAndSend(t.chan, b, t.dir, t.flg)
                /\ UNCHANGED u
           [] t.op = "ReceiveAndSet" ->
                /\ IF t.chan = "eflux" THEN ReceiveAndSetEFlux(b)
                   ELSE ReceiveAndSet(t.chan, b, t.dir)
                /\ UNCHANGED <<send, recv, req_send, posts, msgs>>
           [] t.op = "WaitSend" ->
                /\ IF t.chan = "eflux" THEN WaitSendEFlux(b)
                   ELSE WaitSend(t.chan, b, t.dir)
                /\ UNCHANGED <<send, recv, flag, req_recv, posts, msgs, u>>
  /\ UNCHANGED <<meshVars, tasks, tblVars, bfunc, probe>>

RunTask == \E b \in Gids : TaskStep(b)

NextCycle == RunTask \/ Deliver

SpecCycle == InitCycle /\ [][NextCycle]_vars

\* ------------------------------------------------------------------ ring
\* Four 1D blocks in a ring along x1: the outer x1 neighbor of block 3 is block 0.
\* The control thread of a process takes its blocks through the exchange cycle of
\* the fluid in sweeps: StartReceive on each of its blocks, then LoadAndSend on
\* each block and x1 direction, then ReceiveAndSet, then WaitSend, the blocks in
\* the order of the block list; the processes run independently of each other.
RingGids == 0..3
RingExtents == <<3, 1, 1>>
RingLayouts == {<<0, 0, 0, 0>>, <<0, 0, 1, 1>>}
RingNeighbor(ranks) ==
  LET lidOf(g) == Cardinality({h \in RingGids : h < g /\ ranks[h + 1] = ranks[g + 1]})
      desc(g) == [gid |-> g, lid |-> lidOf(g), rank |-> ranks[g + 1]]
  IN  [g \in RingGids |-> [d \in Dirs |->
        IF d = inner_x1 THEN desc((g + 3) % 4)
        ELSE IF d = outer_x1 THEN desc((g + 1) % 4)
        ELSE NoNeighbor]]
\* Block boundaries inside the mesh, periodic on the two faces the wrap joins.
RingBcs ==
  [g \in RingGids |-> [d \in Dirs |->
    IF d \in {inner_x1, outer_x1}
      THEN (IF (g = 0 /\ d = inner_x1) \/ (g = 3 /\ d = outer_x1) THEN 4 ELSE -1)
      ELSE 1]]
RingTasks ==
  <<Task("StartReceiving", "fluid", -1),
    Task("LoadAndSend", "fluid", inner_x1), Task("LoadAndSend", "fluid", outer_x1),
    Task("ReceiveAndSet", "fluid", inner_x1), Task("ReceiveAndSet", "fluid", outer_x1),
    Task("WaitSend", "fluid", inner_x1), Task("WaitSend", "fluid", outer_x1)>>

InitRing ==
  \E ranks \in RingLayouts :
    /\ Constructed(RingExtents, ranks, RingNeighbor(ranks), RingBcs)
    /\ tasks = [g \in RingGids |-> RingTasks]

\* The sweep a task belongs to.
SweepOf(op) ==
  CASE op = "StartReceiving" -> 1
    [] op = "LoadAndSend" -> 2
    [] op = "ReceiveAndSet" -> 3
    [] op = "WaitSend" -> 4
\* Block b is the next one of its process's block list in the current sweep:
\* the blocks before it in the list are through with the sweep, those after it
\* are not behind it.
InSweep(b) ==
  /\ HasTask(b)
  /\ \A g \in Gids :
       (g # b /\ blocks[g].rank = blocks[b].rank) =>
         IF pc[g] = Len(tasks[g]) THEN g < b
         ELSE IF g < b THEN SweepOf(NextTask(g).op) > SweepOf(NextTask(b).op)
         ELSE SweepOf(NextTask(g).op) >= SweepOf(NextTask(b).op)

RingStep == \E b \in Gids : InSweep(b) /\ TaskStep(b)

NextRing == RingStep \/ Deliver

SpecRing == InitRing /\ [][NextRing]_vars

\* ------------------------------------------------------------------ progress
\* The ring again, with the control thread of each process made explicit: the
\* thread makes the handler calls of its blocks one after the other in a fixed
\* order, and a call that waits holds the thread. Two orders: the cycle in
\* sweeps over the block list (every block's StartReceive, then every block's
\* LoadAndSend, ...), and block by block (the whole cycle of one block before
\* the next block starts).
Schedules == {"sweeps", "blocks"}
Turn(s, g, k) ==
  CASE s = "sweeps" -> SweepOf(RingTasks[k].op) * 100 + g * 10 + k
    [] s = "blocks" -> g * 10 + k
Scheduled(s, g) ==
  [k \in DOMAIN RingTasks |->
    [op |-> RingTasks[k].op, chan |-> RingTasks[k].chan, dir |-> RingTasks[k].dir,
     flg |-> RingTasks[k].flg, sched |-> s, turn |-> Turn(s, g, k)]]

InitProgress ==
  \E ranks \in RingLayouts, s \in Schedules :
    /\ Constructed(RingExtents, ranks, RingNeighbor(ranks), RingBcs)
    /\ tasks = [g \in RingGids |-> Scheduled(s, g)]

\* The next call of the thread of b's process is b's next task.
AtTurn(b) ==
  /\ HasTask(b)
  /\ \A g \in Gids :
       (blocks[g].rank = blocks[b].rank /\ pc[g] < Len(tasks[g])) =>
         NextTask(g).turn >= NextTask(b).turn
ThreadStep(b) == AtTurn(b) /\ TaskStep(b)
RunThread == \E b \in Gids : ThreadStep(b)

NextProgress == RunThread \/ Deliver

\* Calls that can be made do not all stay unmade for ever, and a message that
\* can be delivered is delivered.
SpecProgress ==
  /\ InitProgress
  /\ [][NextProgress]_vars
  /\ WF_vars(Deliver)
  /\ WF_vars(RunThread)

\* ------------------------------------------------------------------ setup, teardown
\* The life of the BoundaryValues object of a block: the constructor, the
\* enrollment of user handlers, the destructor. A run starts when the mesh, its
\* blocks and the index tables exist and no BoundaryValues object does; the codes
\* of the mesh faces come from the input file, and a block has code -1 on a face
\* where it has a neighbor. An exception leaves the process dead.
Unbuilt == 0
Built == 1
Destroyed == 2

\* The codes an input file may give a mesh face: the four physical ones and one
\* that no case label matches.
SetupCodes == {1, 2, 3, 4, 0}
\* Number of axes with a mesh face whose code is not user-defined (3).
MaxOdd == 1
MeshCodes ==
  {m \in [Dirs -> SetupCodes] :
     Cardinality({d \div 2 : d \in {e \in Dirs : m[e] # 3}}) <= MaxOdd}
BlockBcsOf(nbr, m) ==
  [g \in DOMAIN nbr |-> [d \in Dirs |-> IF nbr[g][d].gid # -1 THEN -1 ELSE m[d]]]
\* Calls made on the objects of one run.
MaxSetupCalls == 2

InitSetup ==
  \E n \in Geoms, m \in MeshCodes, mag \in BOOLEAN :
    LET nbr == PairNeighbor(<<0, 0>>, 0)
        G == DOMAIN nbr
        none == [g \in G |-> [c \in Channels |-> [d \in Dirs |-> <<>>]]]
    IN  /\ nx = n
        /\ blocks = [g \in G |-> [rank |-> 0, lid |-> g]]
        /\ neighbor = nbr
        /\ block_bcs = BlockBcsOf(nbr, m)
        /\ mesh_bcs = m
        /\ MAGNETIC_FIELDS_ENABLED = mag
        /\ tab = n
        /\ eflux_bufsize_ = EFluxBufsize(n[1], n[2], n[3], ZeroSizes)
        /\ idx = IndexTable(n)
        /\ bfunc = [g \in G |-> [c \in Channels |-> [d \in Dirs |-> "unset"]]]
        /\ send = none
        /\ recv = none
        /\ flag = [g \in G |-> [c \in Channels |-> [d \in Dirs |-> FALSE]]]
        /\ req_recv = [g \in G |-> [c \in Channels |-> [d \in Dirs |-> 0]]]
        /\ req_send = [g \in G |-> [c \in Channels |-> [d \in Dirs |-> 0]]]
        /\ posts = <<>>
        /\ msgs = <<>>
        /\ u = [g \in G |-> [c \in Channels |->
                 CASE c = "fluid" -> [a \in 1..FluidLen(n[1], n[2], n[3]) |-> Val(g, a)]
                   [] c = "field" -> [a \in 1..FieldLen(n[1], n[2], n[3]) |-> Val(g, a)]
                   [] c = "eflux" -> [a \in EFluxBox(n[1], n[2], n[3]) |-> Val(g, a)]]]
        /\ last = NoLast
        /\ nops = 0
        /\ crashed = FALSE
        /\ probe = NoProbe
        /\ tasks = [g \in G |-> <<>>]
        /\ pc = [g \in G |-> Unbuilt]

\* The case labels of the constructor's switch statements.
Recognized == {1, 2, -1, 3, 4}
\* The directions whose switch statement the constructor runs, in order: x1
\* always, x2 under nx2 > 1, x3 under nx3 > 1.
\* (Variant that runs all six switch statements.)
SwitchDirsBad(n2, n3) == DirSeq(Dirs)
SwitchDirs(n2, n3) ==
  DirSeq({0, 1} \cup (IF n2 > 1 THEN {2, 3} ELSE {})
                \cup (IF n3 > 1 THEN {4, 5} ELSE {}))
\* "Flag ix1_bc=<code> not valid"
FlagName(d) == <<"ix1_bc", "ox1_bc", "ix2_bc", "ox2_bc", "ix3_bc", "ox3_bc">>[d + 1]

\* new Real[...] in the order of the constructor's loops, one entry
\* <<channel, buffer, direction>> per allocation.
BufLoop(c, r) ==
  [k \in 1..(2 * r) |->
    <<c, IF k % 2 = 1 THEN "send" ELSE "recv", (k - 1) \div 2>>]
AllocSeq(mag, n2, n3) ==
  LET r == NDirAlloc(n2, n3)
  IN  BufLoop("fluid", r)
        \o (IF mag
              THEN BufLoop("field", r)
                     \o (IF n2 > 1 THEN BufLoop("eflux", r) ELSE <<>>)
              ELSE <<>>)
\* delete [] in the order of the destructor's loops.
\* (Variant that deletes the eflux buffers in 1D as well.)
FreeSeqBad(mag, n2, n3) ==
  LET r == NDirAlloc(n2, n3)
  IN  BufLoop("fluid", r)
        \o (IF mag THEN BufLoop("field", r) \o BufLoop("eflux", r) ELSE <<>>)
FreeSeq(mag, n2, n3) ==
  LET r == NDirAlloc(n2, n3)
  IN  BufLoop("fluid", r)
        \o (IF mag
              THEN BufLoop("field", r)
                     \o (IF n2 > 1 THEN BufLoop("eflux", r) ELSE <<>>)
              ELSE <<>>)

\* The buffers of one kind that the entries of sq name, each of its table size.
BufsAfter(old, sq, kind, fresh) ==
  [c \in Channels |-> [d \in Dirs |->
    IF InSeq(sq, <<c, kind, d>>)
      THEN (IF fresh THEN FreshBuf(Bufsize(c, d)) ELSE <<>>)
      ELSE old[c][d]]]

\* BoundaryValues::BoundaryValues: a switch statement per active direction, the
\* first code without case label throws; then the buffers and the flags.
SetupCall(b) ==
  /\ ~crashed
  /\ nops < MaxSetupCalls
  /\ nops' = nops + 1
  /\ UNCHANGED <<meshVars, tasks, tblVars, mpiVars, u, probe>>

BoundaryValues ==
  \E b \in Gids :
    /\ SetupCall(b)
    /\ pc[b] = Unbuilt
    /\ LET sw == SwitchDirs(nx[2], nx[3])
           bad == SelectSeq(sw, LAMBDA d : block_bcs[b][d] \notin Recognized)
           al == AllocSeq(MAGNETIC_FIELDS_ENABLED, nx[2], nx[3])
       IN  IF bad # <<>>
             THEN /\ crashed' = TRUE
                  /\ last' = [Did("BoundaryValues", b, "none", bad[1]) EXCEPT
                                !.error = <<FlagName(bad[1]), block_bcs[b][bad[1]]>>]
                  /\ UNCHANGED <<bfunc, send, recv, flag, pc>>
             ELSE /\ bfunc' = [bfunc EXCEPT ![b] = [c \in Channels |-> [d \in Dirs |->
                                 IF InSeq(sw, d) THEN BFuncOf(block_bcs[b][d])
                                 ELSE "unset"]]]
                  /\ send' = [send EXCEPT ![b] = BufsAfter(@, al, "send", TRUE)]
                  /\ recv' = [recv EXCEPT ![b] = BufsAfter(@, al, "recv", TRUE)]
                  /\ flag' = [flag EXCEPT ![b] =
                                [c \in Channels |-> [d \in Dirs |-> FALSE]]]
                  /\ pc' = [pc EXCEPT ![b] = Built]
                  /\ last' = [Did("BoundaryValues", b, "none", -1) EXCEPT !.alloc = al]
                  /\ UNCHANGED crashed

\* EnrollFluidBoundaryFunction, EnrollFieldBoundaryFunction,
\* EnrollEFluxBoundaryFunction: the range check, the check of the mesh code, and
\* the assignment when the direction has no neighbor.
\* (Variant without the check of the mesh code.)
EnrollBad(c, b, dir) ==
  IF dir < 0 \/ dir > 5
    THEN /\ crashed' = TRUE
         /\ last' = [Did("Enroll", b, c, dir) EXCEPT !.error = <<"dirName", dir>>]
         /\ UNCHANGED bfunc
    ELSE /\ bfunc' = IF neighbor[b][dir].gid = -1
                       THEN [bfunc EXCEPT ![b][c][dir] = "user"] ELSE bfunc
         /\ last' = Did("Enroll", b, c, dir)
         /\ UNCHANGED crashed
\* (Variant that assigns on a face with a neighbor as well.)
EnrollAnyFace(c, b, dir) ==
  IF dir < 0 \/ dir > 5
    THEN /\ crashed' = TRUE
         /\ last' = [Did("Enroll", b, c, dir) EXCEPT !.error = <<"dirName", dir>>]
         /\ UNCHANGED bfunc
  ELSE IF mesh_bcs[dir] # 3
    THEN /\ crashed' = TRUE
         /\ last' = [Did("Enroll", b, c, dir) EXCEPT
                       !.error = <<"flag">>, !.read = <<dir>>]
         /\ UNCHANGED bfunc
    ELSE /\ bfunc' = [bfunc EXCEPT ![b][c][dir] = "user"]
         /\ last' = [Did("Enroll", b, c, dir) EXCEPT !.read = <<dir>>]
         /\ UNCHANGED crashed
\* (Variant that assigns the handler of the direction on every channel.)
EnrollAllChannels(c, b, dir) ==
  IF dir < 0 \/ dir > 5
    THEN /\ crashed' = TRUE
         /\ last' = [Did("Enroll", b, c, dir) EXCEPT !.error = <<"dirName", dir>>]
         /\ UNCHANGED bfunc
  ELSE IF mesh_bcs[dir] # 3
    THEN /\ crashed' = TRUE
         /\ last' = [Did("Enroll", b, c, dir) EXCEPT
                       !.error = <<"flag">>, !.read = <<dir>>]
         /\ UNCHANGED bfunc
    ELSE /\ bfunc' = IF neighbor[b][dir].gid = -1
                       THEN [bfunc EXCEPT ![b] =
                               [cc \in Channels |-> [@[cc] EXCEPT ![dir] = "user"]]]
                       ELSE bfunc
         /\ last' = [Did("Enroll", b, c, dir) EXCEPT !.read = <<dir>>]
         /\ UNCHANGED crashed
Enroll(c, b, dir) ==
  IF dir < 0 \/ dir > 5
    THEN /\ crashed' = TRUE
         /\ last' = [Did("Enroll", b, c, dir) EXCEPT !.error = <<"dirName", dir>>]
         /\ UNCHANGED bfunc
  ELSE IF mesh_bcs[dir] # 3
    THEN /\ crashed' = TRUE
         /\ last' = [Did("Enroll", b, c, dir) EXCEPT
                       !.error = <<"flag">>, !.read = <<dir>>]
         /\ UNCHANGED bfunc
    ELSE /\ bfunc' = IF neighbor[b][dir].gid = -1
                       THEN [bfunc EXCEPT ![b][c][dir] = "user"] ELSE bfunc
         /\ last' = [Did("Enroll", b, c, dir) EXCEPT !.read = <<dir>>]
         /\ UNCHANGED crashed

\* The values a caller can pass as enum direction: the six faces and one value on
\* either side of them.
EnrollArgs == -1..6

EnrollBoundaryFunction ==
  \E b \in Gids, c \in Channels, dir \in EnrollArgs :
    /\ SetupCall(b)
    /\ pc[b] = Built
    /\ Enroll(c, b, dir)
    /\ UNCHANGED <<send, recv, flag, pc>>

\* BoundaryValues::~BoundaryValues: delete [] of a pointer that no new set is
\* undefined.
Destructor ==
  \E b \in Gids :
    /\ SetupCall(b)
    /\ pc[b] = Built
    /\ LET fr == FreeSeq(MAGNETIC_FIELDS_ENABLED, nx[2], nx[3])
           wild == \E k \in DOMAIN fr :
                     IF fr[k][2] = "send" THEN send[b][fr[k][1]][fr[k][3]] = <<>>
                     ELSE recv[b][fr[k][1]][fr[k][3]] = <<>>
       IN  /\ send' = [send EXCEPT ![b] = BufsAfter(@, fr, "send", FALSE)]
           /\ recv' = [recv EXCEPT ![b] = BufsAfter(@, fr, "recv", FALSE)]
           /\ pc' = [pc EXCEPT ![b] = Destroyed]
           /\ last' = [Did("~BoundaryValues", b, "none", -1) EXCEPT !.freed = fr]
           /\ crashed' \in (IF wild THEN BOOLEAN ELSE {FALSE})
           /\ UNCHANGED <<bfunc, flag>>

NextSetup == BoundaryValues \/ EnrollBoundaryFunction \/ Destructor

SpecSetup == InitSetup /\ [][NextSetup]_vars

\* ------------------------------------------------------------------ properties
\* The opposite face as the contract defines it: d + 1 for even d, d - 1 for odd d.
OppositeFace(d) == IF d % 2 = 0 THEN d + 1 ELSE d - 1

\* A call of a handler is a step that counts; last' then describes the call.
Called(op) == nops' = nops + 1 /\ last'.op = op

\* Extent of a range along i (ax = 1), j (ax = 2), k (ax = 3), and its volume.
Ext(se, ax) == se[2 * ax] - se[2 * ax - 1] + 1
Vol(se) == Ext(se, 1) * Ext(se, 2) * Ext(se, 3)
\* Offsets <<dk, dj, di>> into a range, the cell <<k, j, i>> at an offset, and the
\* position of the offset when k is outermost, then j, then i.
Offsets(se) == (0..(Ext(se, 3) - 1)) \X (0..(Ext(se, 2) - 1)) \X (0..(Ext(se, 1) - 1))
CellAt(se, o) == <<se[5] + o[1], se[3] + o[2], se[1] + o[3]>>
FlatPos(se, o) == (o[1] * Ext(se, 2) + o[2]) * Ext(se, 1) + o[3]

\* Components of a channel, the range of component n for direction d in the send
\* or receive table, and the buffer position where the component starts.
Comps(c) == IF c = "fluid" THEN 0..(NFLUID - 1) ELSE Faces
SendRange(c, d, n) == IF c = "fluid" THEN fluid_send_se_[d] ELSE field_send_se_[d][n]
RecvRange(c, d, n) == IF c = "fluid" THEN fluid_recv_se_[d] ELSE field_recv_se_[d][n]
Range(side, c, d, n) ==
  IF side = "send" THEN SendRange(c, d, n) ELSE RecvRange(c, d, n)
RECURSIVE Before(_, _, _, _)
Before(side, c, d, n) ==
  IF n = 0 THEN 0 ELSE Before(side, c, d, n - 1) + Vol(Range(side, c, d, n - 1))
\* Storage index of cell <<k, j, i>> of component n in an array of channel c.
Store(c, n, kji) ==
  IF c = "fluid" THEN FluidAt(<<n, kji[1], kji[2], kji[3]>>, nx[1], nx[2], nx[3])
  ELSE FaceAt(<<n, kji[1], kji[2], kji[3]>>, nx[1], nx[2], nx[3])

\* C5: for every channel and direction d the table's buffer element count for d
\* equals its count for the opposite face of d, for all extents of the bounded set.
C5_BufsizeSymmetric ==
  \A c \in Channels, d \in Dirs : Bufsize(c, d) = Bufsize(c, OppositeFace(d))

\* C5 witness: tables built for a 3D block with three different extents, where
\* the counts of the three axes differ from each other and are all positive.
C5_Witness ==
  /\ tab = <<1, 2, 3>>
  /\ probe.op = "LoadAndSend" /\ probe.chan = "eflux" /\ probe.dir = 4
  /\ probe.count = Bufsize("eflux", 5)
  /\ \A c \in Channels : Bufsize(c, 0) > 0 /\ Bufsize(c, 2) > 0 /\ Bufsize(c, 4) > 0
  /\ Bufsize("fluid", 0) # Bufsize("fluid", 2)
  /\ Bufsize("fluid", 2) # Bufsize("fluid", 4)

Count(sq, x) == Cardinality({k \in DOMAIN sq : sq[k] = x})
\* The neighbor of block b in direction d is a block of the same process.
SameProcess(b, d) ==
  neighbor[b][d].gid # -1 /\ neighbor[b][d].rank = blocks[b].rank
OtherProcess(b, d) ==
  neighbor[b][d].gid # -1 /\ neighbor[b][d].rank # blocks[b].rank
\* The directions a call recorded in last was made for: the one direction of a
\* fluid or field call, every direction below ndir of an eflux call in 2D or 3D.
CallDirs(l) ==
  IF l.chan = "eflux"
    THEN IF nx[2] = 1 THEN {} ELSE EFluxDirs
    ELSE {l.dir}

\* C1: ReceiveAndSet on a direction that has a neighbor unpacks the receive buffer
\* only if the completion flag of that direction and channel was true at the call
\* or a blocking wait on the direction's pending receive has returned; so with a
\* same-process neighbor that did not LoadAndSend since the previous ReceiveAndSet
\* (the flag is false) nothing is unpacked.
C1_UnpackOnlyWhenComplete ==
  [][(Called("ReceiveAndSet") /\ last'.unpacked # <<>>) =>
       \A k \in DOMAIN last'.unpacked :
         LET b == last'.blk
             c == last'.chan
             d == last'.unpacked[k]
             h == req_recv[b][c][d]
         IN  \/ flag[b][c][d]
             \/ /\ Count(last'.waited, d) = 1
                /\ h > 0
                /\ posts[h].done]_vars

\* C3: immediately after ReceiveAndSet returned for a direction that has a
\* neighbor, on the same process or remote, the completion flag of that direction
\* and channel is false.
C3_FlagClearedAfterReceive ==
  (last.op = "ReceiveAndSet" /\ ~crashed) =>
    \A d \in Dirs :
      ((d = last.dir \/ last.chan = "eflux") /\ neighbor[last.blk][d].gid # -1) =>
        ~flag[last.blk][last.chan][d]

\* C3 witness: a ReceiveAndSet on a remote direction has waited for the posted
\* receive, which a message of the neighbor completed, and has unpacked it.
C3_Witness ==
  /\ last.op = "ReceiveAndSet" /\ ~crashed
  /\ last.chan # "eflux"
  /\ OtherProcess(last.blk, last.dir)
  /\ last.waited = <<last.dir>> /\ last.unpacked = <<last.dir>>
  /\ req_recv[last.blk][last.chan][last.dir] = -1
  /\ \E m \in DOMAIN msgs : msgs[m].matched
  /\ ~flag[last.blk][last.chan][last.dir]

\* C4: after LoadAndSend(d) of block A towards a neighbor B on the same process,
\* B's receive buffer of the opposite face holds A's packed send buffer and B's
\* flag of the opposite face is true; and in no reachable state is a flag of a
\* same-process direction true while the receive buffer differs from the
\* neighbor's send buffer (the flag is set only once the copy is complete).
C4_LocalCopyThenFlag ==
  /\ (last.op = "LoadAndSend" /\ ~crashed) =>
       \A d \in CallDirs(last) :
         SameProcess(last.blk, d) =>
           LET B == neighbor[last.blk][d].gid
               od == OppositeFace(d)
           IN  /\ flag[B][last.chan][od]
               /\ Len(recv[B][last.chan][od]) = Len(send[last.blk][last.chan][d])
               /\ recv[B][last.chan][od] = send[last.blk][last.chan][d]
  /\ \A b \in Gids, c \in Channels, d \in Dirs :
       (flag[b][c][d] /\ SameProcess(b, d)) =>
         recv[b][c][d] = send[neighbor[b][d].gid][c][OppositeFace(d)]

\* C4 witness: a field LoadAndSend to a same-process neighbor has returned; the
\* neighbor's flag is true and its buffer holds array values of the sender.
C4_Witness ==
  /\ last.op = "LoadAndSend" /\ last.chan = "field" /\ ~crashed
  /\ SameProcess(last.blk, last.dir)
  /\ LET B == neighbor[last.blk][last.dir].gid
         od == OppositeFace(last.dir)
     IN  /\ flag[B]["field"][od]
         /\ Len(recv[B]["field"][od]) > 0
         /\ \A p \in DOMAIN recv[B]["field"][od] :
              recv[B]["field"][od][p] \div 10000 = last.blk

\* C2, packing half: a fluid or field LoadAndSend(d) of B to a same-process
\* neighbor A leaves in A's receive buffer of the opposite face, at the position
\* of each offset of each component in the order component, k, j, i, the element
\* of B's array at that offset of B's send range; the send range of d and the
\* receive range of the opposite face have the same extents.
C2_Packed ==
  (Called("LoadAndSend") /\ last'.chan # "eflux" /\ ~crashed'
     /\ SameProcess(last'.blk, last'.dir)) =>
    LET B == last'.blk
        c == last'.chan
        d == last'.dir
        A == neighbor[B][d].gid
        od == OppositeFace(d)
    IN  \A n \in Comps(c) :
          LET se == SendRange(c, d, n)
          IN  /\ \A ax \in 1..3 : Ext(se, ax) = Ext(RecvRange(c, od, n), ax)
              /\ \A o \in Offsets(se) :
                   recv'[A][c][od][Before("send", c, d, n) + FlatPos(se, o) + 1]
                     = u[B][c][Store(c, n, CellAt(se, o))]

\* C2, unpacking half: a fluid or field ReceiveAndSet that unpacks writes to each
\* offset of each component of its receive range the buffer element at the
\* position of that offset in the same order.
C2_Unpacked ==
  (Called("ReceiveAndSet") /\ last'.chan # "eflux" /\ last'.unpacked # <<>>) =>
    LET A == last'.blk
        c == last'.chan
        od == last'.dir
    IN  \A n \in Comps(c) :
          LET se == RecvRange(c, od, n)
          IN  \A o \in Offsets(se) :
                u'[A][c][Store(c, n, CellAt(se, o))]
                  = recv[A][c][od][Before("recv", c, od, n) + FlatPos(se, o) + 1]

\* C2, in between: a receive buffer changes only by a LoadAndSend of the
\* same-process neighbor across that face or by the arrival of a message.
C2_Kept ==
  \A b \in Gids, c \in Channels, d \in Dirs :
    recv'[b][c][d] # recv[b][c][d] =>
      \/ last'.op = "Deliver" /\ last'.blk = b /\ last'.chan = c /\ last'.dir = d
      \/ /\ last'.op = "LoadAndSend" /\ last'.chan = c
         /\ neighbor[last'.blk][OppositeFace(d)].gid = b
         /\ last'.dir \in {OppositeFace(d), -1}

\* C2: round trip over a same-process pair, fluid and field channels, every
\* active direction: after LoadAndSend(d) of B and then ReceiveAndSet of its
\* neighbor A on the opposite face, with no other send to A in between, every
\* element of A's receive range equals the element of B's send range at the same
\* position of the flattening order (component outermost, then k, j, i).
C2_RoundTrip == [][C2_Packed /\ C2_Unpacked /\ C2_Kept]_vars

\* C2 witness: a 2D block has unpacked the field buffer of an x2 face after its
\* same-process neighbor sent it, and every cell of its receive range holds the
\* initial value of the neighbor's cell at the same offset of the send range.
C2_Witness ==
  /\ last.op = "ReceiveAndSet" /\ last.chan = "field" /\ last.dir \in {2, 3}
  /\ last.unpacked = <<last.dir>>
  /\ SameProcess(last.blk, last.dir)
  /\ LET A == last.blk
         od == last.dir
         B == neighbor[A][od].gid
     IN  \A n \in Faces :
           /\ Vol(RecvRange("field", od, n)) > 0
           /\ \A o \in Offsets(RecvRange("field", od, n)) :
                u[A]["field"][Store("field", n, CellAt(RecvRange("field", od, n), o))]
                  = Val(B, Store("field", n,
                                 CellAt(SendRange("field", OppositeFace(od), n), o)))

\* C7: for a direction with no neighbor, a ReceiveAndSet call for that direction
\* that returns has invoked the registered physical-boundary handler exactly once
\* on the destination array, has read no receive buffer for the direction and
\* has waited on no message for it.
C7_PhysicalHandlerOnce ==
  (last.op = "ReceiveAndSet" /\ ~crashed) =>
    \A d \in CallDirs(last) :
      neighbor[last.blk][d].gid = -1 =>
        /\ Count(last.handled, d) = 1
        /\ Count(last.unpacked, d) = 0
        /\ Count(last.waited, d) = 0
        /\ last.chan # "eflux" =>
             \A p \in DOMAIN RecvAt(last.chan, d) :
               u[last.blk][last.chan][RecvAt(last.chan, d)[p]] = Physical

\* C7 witness: an eflux ReceiveAndSet of a 2D block returned after it invoked
\* the handler of each of its three physical faces once and unpacked the fourth.
C7_Witness ==
  /\ last.op = "ReceiveAndSet" /\ last.chan = "eflux" /\ ~crashed
  /\ nx[2] > 1 /\ nx[3] = 1
  /\ Len(last.handled) = 3 /\ Len(last.unpacked) = 1
  /\ \A d \in 0..3 :
       neighbor[last.blk][d].gid = -1 <=> Count(last.handled, d) = 1

\* C8: LoadAndSend on a direction with no neighbor is a no-op: that send buffer,
\* every block's receive buffers and flags and the messages in flight are
\* unchanged (for the eflux call, which serves all directions at once: the send
\* buffer of each direction with no neighbor, and every receive buffer and flag
\* other than those across the faces that do have a neighbor).
C8_NoNeighborNoOp ==
  [][Called("LoadAndSend") =>
       LET b == last'.blk
           c == last'.chan
       IN  \A d \in CallDirs(last') :
             neighbor[b][d].gid = -1 =>
               /\ send'[b][c][d] = send[b][c][d]
               /\ req_send'[b][c][d] = req_send[b][c][d]
               /\ \A m \in (Len(msgs) + 1)..Len(msgs') : msgs'[m].from # <<b, c, d>>
               /\ c # "eflux" => UNCHANGED <<send, recv, flag, msgs, posts>>
               /\ \A g \in Gids, x \in Dirs :
                    (recv'[g][c][x] # recv[g][c][x] \/ flag'[g][c][x] # flag[g][c][x])
                      => /\ neighbor[b][OppositeFace(x)].gid = g
                         /\ OppositeFace(x) # d]_vars

\* C8 witness: a field LoadAndSend on a physical face returned while a flag set
\* by an earlier LoadAndSend of the block is still true.
C8_Witness ==
  /\ last.op = "LoadAndSend" /\ last.chan = "field"
  /\ neighbor[last.blk][last.dir].gid = -1
  /\ nops = 2
  /\ \E g \in Gids, d \in Dirs : flag[g]["field"][d]

\* C9: StartReceive for a channel posts exactly one receive, sized as the
\* receive buffer, for each direction that has buffers and a neighbor on another
\* process, and none for a direction with no neighbor, with a same-process
\* neighbor or without buffers.
C9_OneReceivePerRemoteDir ==
  [][Called("StartReceiving") =>
       LET b == last'.blk
           c == last'.chan
           new == SubSeq(posts', Len(posts) + 1, Len(posts'))
       IN  /\ SubSeq(posts', 1, Len(posts)) = posts
           /\ \A k \in DOMAIN new : new[k].blk = b /\ new[k].chan = c
           /\ \A d \in Dirs :
                LET mine == {k \in DOMAIN new : new[k].dir = d}
                IN  IF Allocated(c, d, nx[2], nx[3]) /\ OtherProcess(b, d)
                      THEN /\ Cardinality(mine) = 1
                           /\ \A k \in mine :
                                /\ new[k].count = Len(recv[b][c][d])
                                /\ new[k].src = neighbor[b][d].rank
                                /\ req_recv'[b][c][d] = Len(posts) + k
                      ELSE mine = {}]_vars

\* C9 witness: a field StartReceive of a 2D block with a remote neighbor posted
\* one receive, the block having three faces with no neighbor.
C9_Witness ==
  /\ last.op = "StartReceiving" /\ last.chan = "field"
  /\ nx[2] > 1
  /\ Len(posts) = 1 /\ posts[1].blk = last.blk
  /\ OtherProcess(last.blk, posts[1].dir)
  /\ Cardinality({d \in 0..3 : neighbor[last.blk][d].gid = -1}) = 3

\* C10: the tag of a message LoadAndSend(d, phase) sent to a remote neighbor
\* equals the tag of the receive that neighbor posted in StartReceive(phase) for
\* the opposite face and the same channel; and a message matches (source,
\* destination, tag) no other posted receive.
C10_TagsMatch ==
  \A m \in DOMAIN msgs, h \in DOMAIN posts :
    LET b == msgs[m].from[1]
        c == msgs[m].from[2]
        d == msgs[m].from[3]
        opposite == /\ posts[h].blk = neighbor[b][d].gid
                    /\ posts[h].chan = c
                    /\ posts[h].dir = OppositeFace(d)
                    /\ posts[h].phase = msgs[m].phase
    IN  /\ opposite => posts[h].tag = msgs[m].tag
        /\ opposite <=> Matches(h, m)

\* C10 witness: a message and the receive posted for the opposite face in the
\* same phase exist, with equal tags, next to a receive of the other phase.
C10_Witness ==
  \E m \in DOMAIN msgs, h \in DOMAIN posts, h2 \in DOMAIN posts :
    /\ posts[h].blk = neighbor[msgs[m].from[1]][msgs[m].from[3]].gid
    /\ posts[h].chan = msgs[m].from[2]
    /\ posts[h].dir = OppositeFace(msgs[m].from[3])
    /\ posts[h].phase = msgs[m].phase
    /\ posts[h].tag = msgs[m].tag
    /\ posts[h2].phase # msgs[m].phase
    /\ posts[h2].tag # msgs[m].tag
\* Block b has a posted receive (a sent message) of channel c, direction d, that
\* the message layer did not complete yet.
PendingRecv(b, c, d) ==
  req_recv[b][c][d] > 0 /\ ~posts[req_recv[b][c][d]].done
PendingSend(b, c, d) ==
  req_send[b][c][d] > 0 /\ ~msgs[req_send[b][c][d]].matched
\* The directions the task t of a block is about.
TaskDirs(t) == IF t.chan = "eflux" THEN EFluxDirs ELSE {t.dir}

\* C11: a block whose next task is StartReceive or LoadAndSend can always run it,
\* whatever messages are in flight and wherever the other block is in its list; a
\* block that cannot run its next task is at a ReceiveAndSet with a remote
\* neighbor whose posted receive is pending, or at a WaitSend with a remote
\* neighbor whose send is pending.
C11_OnlyWaitsSuspend ==
  \A b \in Gids :
    HasTask(b) =>
      LET t == NextTask(b)
      IN  /\ t.op \in {"StartReceiving", "LoadAndSend"} => ENABLED TaskStep(b)
          /\ t.op = "ReceiveAndSet" =>
               \/ \E e \in TaskDirs(t) : OtherProcess(b, e) /\ PendingRecv(b, t.chan, e)
               \/ ENABLED TaskStep(b)
          /\ t.op = "WaitSend" =>
               \/ \E e \in TaskDirs(t) : OtherProcess(b, e) /\ PendingSend(b, t.chan, e)
               \/ ENABLED TaskStep(b)

\* C11 witness: a block is suspended in ReceiveAndSet on its pending receive
\* while its remote neighbor, which has sent nothing yet, can run the
\* LoadAndSend it is at.
C11_Witness ==
  \E b \in Gids, g \in Gids :
    /\ b # g /\ HasTask(b) /\ HasTask(g)
    /\ NextTask(b).op = "ReceiveAndSet" /\ NextTask(b).chan = "fluid"
    /\ OtherProcess(b, NextTask(b).dir)
    /\ PendingRecv(b, "fluid", NextTask(b).dir)
    /\ NextTask(g).op = "LoadAndSend"
    /\ \A m \in DOMAIN msgs : msgs[m].from[1] # g
    /\ ~(ENABLED TaskStep(b))
    /\ ENABLED TaskStep(g)
\* C12: once a ReceiveAndSet(d) has waited for and consumed the receive of a
\* remote neighbor, and no receive was posted for d since (the request handle is
\* the null request), no further ReceiveAndSet(d) completes: the call stays
\* suspended, unpacking nothing, until a newly posted receive completes.
C12_SecondReceiveBlocks ==
  [][~(/\ Called("ReceiveAndSet")
       /\ last'.chan # "eflux"
       /\ OtherProcess(last'.blk, last'.dir)
       /\ req_recv[last'.blk][last'.chan][last'.dir] = -1)]_vars

\* The value of flag_[d][0][0] when the unpack loops of ReceiveAndSet start: the
\* eflux handler sets it after the wait on a remote direction; the fluid and
\* field handlers assign nothing between the call and the unpack.
FlagAtUnpack(b, c, d) ==
  IF c = "eflux" /\ IsRemote(b, d) THEN TRUE ELSE flag[b][c][d]

\* C13: on every channel the completion flag of a direction is true at the
\* moment ReceiveAndSet unpacks that direction's receive buffer: it was set by
\* the transfer that completed (the same-process copy, or the completion of the
\* posted receive of a remote neighbor) and only the unpack clears it.
C13_FlagTrueAtUnpack ==
  [][Called("ReceiveAndSet") =>
       \A k \in DOMAIN last'.unpacked :
         FlagAtUnpack(last'.blk, last'.chan, last'.unpacked[k])]_vars

\* C14: when StartReceive of a channel returns on a block, every completion flag
\* of that channel on the block is false, on each of the three channels.
C14_FlagsResetAtStart ==
  [][Called("StartReceiving") =>
       \A d \in Dirs : ~flag'[last'.blk][last'.chan][d]]_vars

\* C15: in every reachable state, for every block, channel and direction whose
\* neighbor descriptor holds the no-neighbor sentinel, the completion flag is
\* false and no receive is posted: the request handle was never set and no
\* posted receive names the direction.
C15_BoundaryDirsIdle ==
  \A b \in Gids, c \in Channels, d \in Dirs :
    NoNeighborAt(b, d) =>
      /\ ~flag[b][c][d]
      /\ req_recv[b][c][d] = 0
      /\ \A h \in DOMAIN posts :
           ~(posts[h].blk = b /\ posts[h].chan = c /\ posts[h].dir = d)

\* A block made a call on a no-neighbor direction while another of its
\* directions has a completed copy or a posted receive.
C15_Witness ==
  \E b \in Gids, c \in Channels, d \in Dirs, e \in Dirs :
    /\ NoNeighborAt(b, d)
    /\ last.blk = b /\ last.chan = c
    /\ \/ last.op \in {"LoadAndSend", "ReceiveAndSet"} /\ last.dir = d
       \/ last.op = "StartReceiving"
    /\ flag[b][c][e] \/ req_recv[b][c][e] > 0

\* C16: WaitSend waits on the send request of a direction exactly when the
\* direction has a neighbor owned by another process; on a direction without
\* neighbor or with a same-process neighbor it waits on no request and changes
\* nothing: no request handle, buffer, flag, array or message.
C16_WaitSendOnlyRemote ==
  [][Called("WaitSend") =>
       LET b == last'.blk
           c == last'.chan
           ds == CallDirs(last')
       IN  /\ \A d \in Dirs :
                InSeq(last'.waited, d) <=> (d \in ds /\ OtherProcess(b, d))
           /\ \A d \in Dirs :
                ~OtherProcess(b, d) => req_send'[b][c][d] = req_send[b][c][d]
           /\ (\A d \in ds : ~OtherProcess(b, d)) =>
                UNCHANGED <<send, recv, flag, req_recv, req_send, posts, msgs, u,
                            bfunc, crashed>>]_vars

\* WaitSend returned on a direction whose same-process neighbor already holds
\* the copy this block made.
C16_Witness ==
  /\ last.op = "WaitSend"
  /\ last.chan # "eflux"
  /\ SameProcess(last.blk, last.dir)
  /\ last.waited = <<>>
  /\ flag[neighbor[last.blk][last.dir].gid][last.chan][Oside(last.dir)]

\* C17: enrolling a user handler, on any of the three channels, fails with a
\* configuration error and enrolls nothing when the direction index is outside
\* 0..5, and when the code configured for that direction is not the
\* user-defined code 3; the range check comes first: with an index out of range
\* no boundary code is read.
C17_EnrollChecks ==
  [][Called("Enroll") =>
       LET dir == last'.dir
           fails == Len(last'.error) > 0 /\ crashed' /\ bfunc' = bfunc
       IN  /\ dir \notin 0..5 => fails /\ last'.read = <<>>
           /\ (dir \in 0..5 /\ mesh_bcs[dir] # 3) => fails]_vars

\* An enrollment on a face of the mesh whose code is not 3 was refused.
C17_Witness ==
  /\ last.op = "Enroll"
  /\ last.dir \in 0..5
  /\ last.error = <<"flag">>
  /\ mesh_bcs[last.dir] # 3
  /\ crashed

\* C18 (as stated): enrolling a user handler on a direction of a block that has
\* an actual neighbor (the neighbor's global id is not -1) is a fatal
\* configuration error, on every channel.
C18_EnrollOnNeighborFails ==
  [][(/\ Called("Enroll")
      /\ last'.dir \in 0..5
      /\ neighbor[last'.blk][last'.dir].gid # -1) =>
       Len(last'.error) > 0 /\ crashed']_vars

\* C18 (amended): enrolling a user handler on a direction of a block that has an
\* actual neighbor enrolls nothing, on every channel: the handler tables stay as
\* they were; the call is an error exactly when the code of the mesh face in
\* that direction is not 3, and returns normally otherwise.
C18_EnrollOnNeighborIgnored ==
  [][(/\ Called("Enroll")
      /\ last'.dir \in 0..5
      /\ neighbor[last'.blk][last'.dir].gid # -1) =>
       /\ bfunc' = bfunc
       /\ (Len(last'.error) > 0) <=> (mesh_bcs[last'.dir] # 3)
       /\ crashed' <=> (mesh_bcs[last'.dir] # 3)]_vars

\* An enrollment on the face towards the neighbor returned normally.
C18_Witness ==
  /\ last.op = "Enroll"
  /\ last.dir \in 0..5
  /\ neighbor[last.blk][last.dir].gid # -1
  /\ mesh_bcs[last.dir] = 3
  /\ last.error = <<>>
  /\ ~crashed
  /\ bfunc[last.blk][last.chan][last.dir] = "NULL"

\* C19 (as stated): the constructor raises a fatal error whenever the boundary
\* code of any of the six directions of the block is not one of 1, 2, -1, 3, 4,
\* and raises none when all six codes are among them.
C19_AnyBadCodeThrows ==
  [][Called("BoundaryValues") =>
       LET bad == {d \in Dirs : block_bcs[last'.blk][d] \notin {1, 2, -1, 3, 4}}
       IN  (Len(last'.error) > 0 /\ crashed') <=> bad # {}]_vars

\* C19 (amended): the constructor examines the codes of the active directions
\* only: the x1 faces always, the x2 faces when nx2 > 1, the x3 faces when
\* nx3 > 1. It raises a fatal error, naming the first active direction whose
\* code is not one of 1, 2, -1, 3, 4 and that code, and builds nothing; it
\* raises no error when the codes of all active directions are among them,
\* whatever the codes of the other directions.
C19_ActiveBadCodeThrows ==
  [][Called("BoundaryValues") =>
       LET b == last'.blk
           active == {0, 1} \cup (IF nx[2] > 1 THEN {2, 3} ELSE {})
                            \cup (IF nx[3] > 1 THEN {4, 5} ELSE {})
           bad == {d \in active : block_bcs[b][d] \notin {1, 2, -1, 3, 4}}
           first == CHOOSE d \in bad : \A e \in bad : d <= e
       IN  IF bad # {}
             THEN /\ last'.error = <<FlagName(first), block_bcs[b][first]>>
                  /\ crashed'
                  /\ pc'[b] = Unbuilt
                  /\ UNCHANGED <<bfunc, send, recv>>
             ELSE /\ last'.error = <<>>
                  /\ ~crashed'
                  /\ pc'[b] = Built]_vars

\* The constructor of a 2D block threw on the code of its outer x2 face.
C19_Witness ==
  /\ last.op = "BoundaryValues"
  /\ nx[2] > 1
  /\ last.error = <<"ox2_bc", 0>>
  /\ block_bcs[last.blk][outer_x2] = 0
  /\ crashed

\* The buffers <<channel, buffer, direction>> a block holds.
Held(sb, rb) ==
  {e \in Channels \X {"send", "recv"} \X Dirs :
     IF e[2] = "send" THEN sb[e[1]][e[3]] # <<>> ELSE rb[e[1]][e[3]] # <<>>}
NoRepeat(sq) == \A j, k \in DOMAIN sq : sq[j] = sq[k] => j = k
Entries(sq) == {sq[k] : k \in DOMAIN sq}

\* C20: the constructor allocates every buffer at most once, and exactly the
\* send and receive buffers of the active directions (2 when nx2 = 1 and
\* nx3 = 1, 4 when nx2 > 1 and nx3 = 1, 6 when nx3 > 1): those of the fluid
\* always, those of the field only when the field is modelled, those of the
\* eflux only when the field is modelled and nx2 > 1; the destructor releases
\* every buffer the block holds, once, and no other.
C20_AllocatedOnceAndReleased ==
  [][/\ (Called("BoundaryValues") /\ last'.error = <<>>) =>
          LET b == last'.blk
              r == IF nx[3] > 1 THEN 6 ELSE IF nx[2] > 1 THEN 4 ELSE 2
              want == {e \in Channels \X {"send", "recv"} \X Dirs :
                         /\ e[3] < r
                         /\ e[1] = "field" => MAGNETIC_FIELDS_ENABLED
                         /\ e[1] = "eflux" => MAGNETIC_FIELDS_ENABLED /\ nx[2] > 1}
          IN  /\ Held(send[b], recv[b]) = {}
              /\ NoRepeat(last'.alloc)
              /\ Entries(last'.alloc) = want
              /\ Held(send'[b], recv'[b]) = want
     /\ Called("~BoundaryValues") =>
          LET b == last'.blk
          IN  /\ NoRepeat(last'.freed)
              /\ Entries(last'.freed) = Held(send[b], recv[b])
              /\ Held(send'[b], recv'[b]) = {}
              /\ ~crashed']_vars

\* The destructor of a 2D block of a build with fields released its 24 buffers.
C20_Witness ==
  /\ last.op = "~BoundaryValues"
  /\ MAGNETIC_FIELDS_ENABLED
  /\ nx[2] > 1 /\ nx[3] = 1
  /\ Len(last.freed) = 24
  /\ Held(send[last.blk], recv[last.blk]) = {}
  /\ pc[last.blk] = Destroyed

\* The file-scope tables of InitBoundaryBuffer.
Tables ==
  <<fluid_send_se_, fluid_recv_se_, field_send_se_, field_recv_se_,
    fluid_bufsize_, field_bufsize_, eflux_bufsize_>>

\* C21: once the buffers of a block are allocated, no step changes the index
\* ranges or the buffer element counts its LoadAndSend and ReceiveAndSet use, a
\* further call of InitBoundaryBuffer included, and the number of elements their
\* loops copy is at most the size of the allocated buffer.
C21_TablesImmutable ==
  [][(\E b \in Gids : Held(send[b], recv[b]) # {}) =>
       /\ Tables' = Tables
       /\ \A b \in Gids, c \in Channels, d \in Dirs :
            send[b][c][d] # <<>> =>
              /\ Len(SendCells(c, d))' <= Len(send[b][c][d])
              /\ Len(RecvCells(c, d))' <= Len(recv[b][c][d])
              /\ Bufsize(c, d)' <= Len(send[b][c][d])]_vars

\* The cell of component n at x1 index i of a 1D block, in the fluid array.
RingCell(n, i) == FluidAt(<<n, 0, 0, i>>, nx[1], nx[2], nx[3])
\* Block b has returned from ReceiveAndSet on both x1 directions.
RingReceived(b) ==
  /\ ~crashed
  /\ \A k \in 1..Len(tasks[b]) : tasks[b][k].op = "ReceiveAndSet" => pc[b] >= k

\* C22: in the ring of four 1D blocks, once a block is through the ReceiveAndSet
\* calls of one exchange cycle of the fluid, its ghost cells beyond the outer x1
\* face hold, component by component and cell by cell, the first NGHOST interior
\* cells of its outer neighbor (block 0 for block 3), and its ghost cells beyond
\* the inner x1 face hold the last NGHOST interior cells of its inner neighbor.
C22_RingGhosts ==
  \A b \in Gids :
    RingReceived(b) =>
      LET o == neighbor[b][outer_x1].gid
          i == neighbor[b][inner_x1].gid
      IN  \A n \in 0..(NFLUID - 1), g \in 0..(NGHOST - 1) :
            /\ u[b]["fluid"][RingCell(n, Ie(nx[1]) + 1 + g)]
                 = u[o]["fluid"][RingCell(n, Is + g)]
            /\ u[b]["fluid"][RingCell(n, g)]
                 = u[i]["fluid"][RingCell(n, Ie(nx[1]) - NGHOST + 1 + g)]

\* C22 witness: the four blocks, on two processes, are through the whole cycle;
\* the outer ghost cells of block 3 hold the initial values of the first interior
\* cells of block 0 and the inner ghost cells of block 0 those of the last
\* interior cells of block 3.
C22_Witness ==
  /\ ~crashed
  /\ Gids = RingGids
  /\ blocks[0].rank # blocks[3].rank
  /\ \A b \in Gids : pc[b] = Len(tasks[b])
  /\ neighbor[3][outer_x1].gid = 0
  /\ \A n \in 0..(NFLUID - 1), g \in 0..(NGHOST - 1) :
       /\ u[3]["fluid"][RingCell(n, Ie(nx[1]) + 1 + g)] = Val(0, RingCell(n, Is + g))
       /\ u[0]["fluid"][RingCell(n, g)]
            = Val(3, RingCell(n, Ie(nx[1]) - NGHOST + 1 + g))

\* The axis a direction's face is normal to, and the interior interval lo..hi of
\* the tables' block on that axis.
NormalAxis(d) == d \div 2 + 1
IsInner(d) == d % 2 = 0
IntLo(ax) == IF ax = 1 THEN Is ELSE IF ax = 2 THEN Js(tab[2]) ELSE Ks(tab[3])
IntHi(ax) == IF ax = 1 THEN Ie(tab[1]) ELSE IF ax = 2 THEN Je(tab[2]) ELSE Ke(tab[3])
\* The interval s..e of a range on an axis.
On(se, ax) == <<se[2 * ax - 1], se[2 * ax]>>
Within(r, lo, hi) == lo <= r[1] /\ r[2] <= hi
Disjoint(r, s) == r[2] < s[1] \/ s[2] < r[1]
TableDirs == 0..(NDirAlloc(tab[2], tab[3]) - 1)

\* The parts of C23 that do not depend on the extent: on the normal axis the
\* send range is the NGHOST cells on the block's side of the face, the receive
\* range the NGHOST ghost cells beyond it, the two are disjoint and within
\* 0..n+2*NGHOST-1.
SlabsAtFace(d) ==
  LET ax == NormalAxis(d)
      lo == IntLo(ax)
      hi == IntHi(ax)
      s == On(fluid_send_se_[d], ax)
      r == On(fluid_recv_se_[d], ax)
  IN  /\ s = IF IsInner(d) THEN <<lo, lo + NGHOST - 1>> ELSE <<hi - NGHOST + 1, hi>>
      /\ r = IF IsInner(d) THEN <<lo - NGHOST, lo - 1>> ELSE <<hi + 1, hi + NGHOST>>
      /\ Disjoint(s, r)
      /\ Within(s, 0, tab[ax] + 2 * NGHOST - 1)
      /\ Within(r, 0, tab[ax] + 2 * NGHOST - 1)
SendInInterior(d) ==
  Within(On(fluid_send_se_[d], NormalAxis(d)), IntLo(NormalAxis(d)), IntHi(NormalAxis(d)))

BoundaryFace(d) ==
  IF IsInner(d) THEN IntLo(NormalAxis(d)) ELSE IntHi(NormalAxis(d)) + 1
\* The NGHOST layers from index at on, towards the interior or away from it.
Inward(d, at) == IF IsInner(d) THEN <<at, at + NGHOST - 1>> ELSE <<at - NGHOST + 1, at>>
Outward(d, at) == IF IsInner(d) THEN <<at - NGHOST + 1, at>> ELSE <<at, at + NGHOST - 1>>
In(i, r) == r[1] <= i /\ i <= r[2]
\* One layer further into the block from index i.
Inner1(d, i) == IF IsInner(d) THEN i + 1 ELSE i - 1
Outer1(d, i) == IF IsInner(d) THEN i - 1 ELSE i + 1

\* C24: for the field and every direction d, on the normal axis: the component
\* whose faces are parallel to the exchanged face is sent from the NGHOST face
\* layers that start one layer inside the block's boundary face, so the boundary
\* face itself is not sent, and is received into the NGHOST layers that start one
\* layer beyond the boundary face; the other two components are sent from the
\* same NGHOST layers as the cell-centred fluid; and the send range of d, the
\* receive range of d and the receive range of the opposite face have the same
\* extent on every axis, component by component.
C24_FieldSlabs ==
  \A d \in Dirs, f \in Faces :
    LET ax == NormalAxis(d)
        bf == BoundaryFace(d)
        s == On(field_send_se_[d][f], ax)
        r == On(field_recv_se_[d][f], ax)
    IN  /\ f = ax - 1 =>
             /\ s = Inward(d, Inner1(d, bf))
             /\ ~In(bf, s)
             /\ r = Outward(d, Outer1(d, bf))
             /\ ~In(bf, r)
        /\ f # ax - 1 =>
             /\ s = On(fluid_send_se_[d], ax)
             /\ r = On(fluid_recv_se_[d], ax)
        /\ \A a \in 1..3 :
             /\ Ext(field_send_se_[d][f], a) = Ext(field_recv_se_[d][f], a)
             /\ Ext(field_send_se_[d][f], a) = Ext(field_recv_se_[OppositeFace(d)][f], a)

\* C24 witness: the packing loops of the field were counted for the inner x2 face
\* of a 2D block of extents (3, 2, 1), whose boundary face is js = 2: the x2
\* component is sent from faces 3..4, the x1 and x3 components from cells 2..3.
C24_Witness ==
  /\ tab = <<3, 2, 1>>
  /\ probe.op = "LoadAndSend" /\ probe.chan = "field" /\ probe.dir = inner_x2
  /\ probe.count = probe.size /\ probe.count > 0
  /\ BoundaryFace(inner_x2) = 2
  /\ On(field_send_se_[inner_x2][x2face], 2) = <<3, 4>>
  /\ On(field_send_se_[inner_x2][x1face], 2) = <<2, 3>>
  /\ On(field_send_se_[inner_x2][x3face], 2) = <<2, 3>>
  /\ On(field_recv_se_[outer_x2][x2face], 2) = <<5, 6>>

\* The weight array that goes with a flux array of the eflux exchange: wsrc.x1f
\* with fsrc.x1f(X1E2 / X1E3), wsrc.x2f with fsrc.x2f, wsrc.x3f with fsrc.x3f.
IsFlux(a) == a \in {F1E2, F1E3, F2E1, F2E3, F3E1, F3E2}
WeightOf(a) == IF a \in {F1E2, F1E3} THEN W1 ELSE IF a \in {F2E1, F2E3} THEN W2 ELSE W3
\* The edge samples block b sends across direction d: cell <<array, k, j, i>> of
\* every flux array read by the packing loops of d.
EdgeSamples(d) ==
  LET c == EFluxCells(d, nx[1], nx[2], nx[3], 0)
  IN  {c[p] : p \in {q \in DOMAIN c : IsFlux(c[q][1])}}
\* The value block b holds at a cell of its eflux arrays.
EdgeVal(b, x) == u[b]["eflux"][FaceAt(x, nx[1], nx[2], nx[3])]
WeightCell(x) == <<WeightOf(x[1]), x[2], x[3], x[4]>>
\* The number of samples of the flux array a in the buffer of direction d.
RunLen(d, a) == Cardinality({x \in EdgeSamples(d) : x[1] = a})
\* An eflux LoadAndSend of a 2D or 3D block has returned.
EFluxSent ==
  /\ Called("LoadAndSend") /\ last'.chan = "eflux" /\ ~crashed'
  /\ nx[2] > 1

GhostSamples(d) ==
  LET c == EFluxCells(d, nx[1], nx[2], nx[3], 1)
  IN  {c[p] : p \in {q \in DOMAIN c : IsFlux(c[q][1])}}
BoundaryPlane(d) ==
  CASE d = inner_x1 -> Ie(nx[1]) [] d = outer_x1 -> Is
    [] d = inner_x2 -> Je(nx[2]) [] d = outer_x2 -> Js(nx[2])
    [] d = inner_x3 -> Ke(nx[3]) [] d = outer_x3 -> Ks(nx[3])
AcrossFace(d, x) ==
  CASE NormalAxis(d) = 1 -> <<x[1], x[2], x[3], BoundaryPlane(d)>>
    [] NormalAxis(d) = 2 -> <<x[1], x[2], BoundaryPlane(d), x[4]>>
    [] NormalAxis(d) = 3 -> <<x[1], BoundaryPlane(d), x[3], x[4]>>

\* C26: when ReceiveAndSetEFlux of a 2D or 3D block A returns and the same-process
\* neighbor B across direction d has run LoadAndSendEFlux (A's flag of d is set),
\* then for every edge sample of d the flux value and the weight A now holds just
\* outside its face are the value and the weight B holds at the same edge of its
\* boundary plane.
C26_EFluxRoundTrip ==
  [][(/\ Called("ReceiveAndSet") /\ last'.chan = "eflux" /\ ~crashed'
      /\ nx[2] > 1) =>
       \A d \in EFluxDirs :
         (SameProcess(last'.blk, d) /\ flag[last'.blk]["eflux"][d]) =>
           LET A == last'.blk
               B == neighbor[A][d].gid
           IN  \A x \in GhostSamples(d) :
                 /\ u'[A]["eflux"][FaceAt(x, nx[1], nx[2], nx[3])]
                      = EdgeVal(B, AcrossFace(d, x))
                 /\ u'[A]["eflux"][FaceAt(WeightCell(x), nx[1], nx[2], nx[3])]
                      = EdgeVal(B, WeightCell(AcrossFace(d, x)))]_vars

\* C26 witness: block A of the 3D pair has returned from ReceiveAndSetEFlux after
\* its neighbor B sent; the x3 direction was unpacked and A's cell of
\* fsrc.x2f(X2E1) at the far corner of the plane outside the face, and the weight
\* there, hold B's initial value and weight of that edge.
C26_Witness ==
  /\ last.op = "ReceiveAndSet" /\ last.chan = "eflux" /\ ~crashed
  /\ nx[3] > 1
  /\ \E d \in {inner_x3, outer_x3} :
       /\ SameProcess(last.blk, d)
       /\ InSeq(last.unpacked, d)
       /\ LET A == last.blk
              B == neighbor[A][d].gid
              x == <<F2E1, IF d = inner_x3 THEN Ks(nx[3]) - 1 ELSE Ke(nx[3]) + 1,
                     Je(nx[2]) + 1, Ie(nx[1])>>
          IN  /\ B # A
              /\ x \in GhostSamples(d)
              /\ u[A]["eflux"][FaceAt(x, nx[1], nx[2], nx[3])]
                   = Val(B, FaceAt(AcrossFace(d, x), nx[1], nx[2], nx[3]))
              /\ u[A]["eflux"][FaceAt(WeightCell(x), nx[1], nx[2], nx[3])]
                   = Val(B, FaceAt(WeightCell(AcrossFace(d, x)), nx[1], nx[2], nx[3]))

\* Block b is in ReceiveAndSet, in MPI_Wait on the posted receive of a remote
\* direction e that has not completed.
WaitingOn(b, e) ==
  /\ HasTask(b) /\ NextTask(b).op = "ReceiveAndSet"
  /\ e \in TaskDirs(NextTask(b))
  /\ OtherProcess(b, e)
  /\ PendingRecv(b, NextTask(b).chan, e)
\* The neighbor of b across e has sent the message the receive of e is posted for.
PeerSent(b, e) ==
  \E m \in DOMAIN msgs :
    /\ msgs[m].from = <<neighbor[b][e].gid, NextTask(b).chan, OppositeFace(e)>>
    /\ Matches(req_recv[b][NextTask(b).chan][e], m)

\* C27: while a block is in ReceiveAndSet on the posted, incomplete receive of a
\* remote neighbor, no step returns the call, changes the block's arrays or flags
\* or raises an error, and the receive completes only by the arrival of a message
\* the neighbor has sent: if the neighbor never sends, the call never returns and
\* the ghost cells of the direction are never written.
C27_WaitsForPeer ==
  [][\A b \in Gids, e \in Dirs :
       WaitingOn(b, e) =>
         /\ pc'[b] = pc[b]
         /\ u'[b] = u[b]
         /\ flag'[b] = flag[b]
         /\ ~crashed'
         /\ ~PeerSent(b, e) => WaitingOn(b, e)']_vars

\* C27 witness: a block has posted its receive and is in ReceiveAndSet on it, its
\* neighbor has sent nothing, the call cannot proceed, and the ghost cells of the
\* direction hold what they held at construction.
C27_Witness ==
  \E b \in Gids, e \in Dirs :
    /\ WaitingOn(b, e)
    /\ NextTask(b).chan = "fluid"
    /\ \A m \in DOMAIN msgs : msgs[m].from[1] = b
    /\ ~PeerSent(b, e)
    /\ ~(ENABLED TaskStep(b))
    /\ \A k \in DOMAIN RecvAt("fluid", e) :
         u[b]["fluid"][RecvAt("fluid", e)[k]] = Val(b, RecvAt("fluid", e)[k])

\* Every block has returned from every call of its cycle.
AllReturned == \A b \in Gids : pc[b] = Len(tasks[b])
\* The threads walk the cycle in sweeps over their blocks.
InSweeps == \A b \in Gids : \A k \in DOMAIN tasks[b] : tasks[b][k].sched = "sweeps"

\* C28 as stated: whatever the order in which a process takes its blocks through
\* their cycles, the exchange never deadlocks: as long as some call has not
\* returned, a thread can make its next call or a message can be delivered.
C28_NoDeadlockAnyOrder ==
  (~crashed /\ ~AllReturned) => ENABLED NextProgress

\* C28: when every process runs the cycle in sweeps over its block list (the
\* LoadAndSend calls of all its blocks before the first ReceiveAndSet of any of
\* them), then for every interleaving of the processes and of the message
\* deliveries every call of every block eventually returns.
C28_SweepsReturn == InSweeps ~> AllReturned

\* C28 witness: the ring on two processes, run in sweeps, with every call of
\* every block returned, every posted receive completed and every send matched.
C28_Witness ==
  /\ InSweeps /\ AllReturned /\ ~crashed
  /\ blocks[0].rank # blocks[3].rank
  /\ Len(posts) = 4 /\ Len(msgs) = 4
  /\ \A h \in DOMAIN posts : posts[h].done
  /\ \A m \in DOMAIN msgs : msgs[m].matched

\* C29: a fluid or field ReceiveAndSet on a direction with no neighbor whose
\* boundary code is one the constructor accepts (1, 2, 3, 4) finds a handler to
\* call and returns; with code 3 and no enrolled handler it leaves the
\* destination array as it was; no null handler is called.
C29_DefinedHandler ==
  [][(/\ Called("ReceiveAndSet") /\ last'.chan # "eflux"
      /\ NoNeighborAt(last'.blk, last'.dir)
      /\ block_bcs[last'.blk][last'.dir] \in {1, 2, 3, 4}) =>
       /\ bfunc[last'.blk][last'.chan][last'.dir] # "NULL"
            \/ (~crashed' /\ u' = u)
       /\ ~crashed']_vars

\* C30: a returning ReceiveAndSetEFlux of a 2D or 3D block serves every active
\* direction in the one call (the handler for a direction with no neighbor, the
\* unpack loops otherwise); it has waited on the receive of every remote
\* direction, and when the unpack loops start the transfer of every direction
\* with a neighbor, remote or same-process, is complete (its flag is true); on
\* return the eflux flag of every active direction is false.
C30_AllCompleteThenCleared ==
  [][(/\ Called("ReceiveAndSet") /\ last'.chan = "eflux" /\ ~crashed'
      /\ nx[2] > 1) =>
       \A d \in EFluxDirs :
         /\ Count(last'.handled, d) + Count(last'.unpacked, d) = 1
         /\ NoNeighborAt(last'.blk, d) <=> InSeq(last'.handled, d)
         /\ IsRemote(last'.blk, d) <=> InSeq(last'.waited, d)
         /\ ~NoNeighborAt(last'.blk, d) => FlagAtUnpack(last'.blk, "eflux", d)
         /\ ~flag'[last'.blk]["eflux"][d]]_vars

\* C31: on a 1D block every eflux call returns having done nothing: no buffer,
\* flag, request, posted receive, message, array or handler changes, nothing is
\* posted, sent, copied, waited for, unpacked or handed to a handler, and no
\* error is raised.
C31_EFlux1DNoOp ==
  [][(/\ \E op \in {"StartReceiving", "LoadAndSend", "ReceiveAndSet", "WaitSend"} :
           Called(op)
      /\ last'.chan = "eflux"
      /\ nx[2] = 1) =>
       /\ UNCHANGED <<send, recv, flag, req_recv, req_send, posts, msgs, u, bfunc>>
       /\ ~crashed'
       /\ last'.posted = <<>> /\ last'.sent = <<>> /\ last'.copied = <<>>
       /\ last'.waited = <<>> /\ last'.unpacked = <<>> /\ last'.handled = <<>>]_vars

\* C31 witness: a 1D block with a remote neighbor and a physical boundary has
\* returned from ReceiveAndSetEFlux as its third call, with no receive posted,
\* no message sent and every eflux flag false.
C31_Witness ==
  /\ last.op = "ReceiveAndSet" /\ last.chan = "eflux" /\ ~crashed
  /\ nx[2] = 1 /\ nops = 3
  /\ \E d \in Dirs : IsRemote(last.blk, d)
  /\ \E d \in Dirs : NoNeighborAt(last.blk, d)
  /\ posts = <<>> /\ msgs = <<>>
  /\ \A d \in Dirs : ~flag[last.blk]["eflux"][d]

\* C32: a send buffer is not packed again while a send from it is in flight:
\* whenever LoadAndSend hands the send buffer of a direction to a non-blocking
\* send, no earlier send of that block, channel and direction is still between
\* its LoadAndSend and the return of its WaitSend (the send request of the
\* direction is not a live handle).
C32_SendBufferHeld ==
  [][(Called("LoadAndSend") /\ last'.sent # <<>>) =>
       \A k \in DOMAIN last'.sent :
         req_send[last'.blk][last'.chan][last'.sent[k]] <= 0]_vars

\* C33: no transfer is lost on the same-process path: whenever LoadAndSend
\* copies a send buffer into the receive buffer of a same-process neighbor, the
\* completion flag of that neighbor for the opposite face and the channel is
\* false, i.e. the buffer delivered before has been consumed by a ReceiveAndSet.
C33_NoLostTransfer ==
  [][(Called("LoadAndSend") /\ last'.copied # <<>>) =>
       \A k \in DOMAIN last'.copied :
         ~flag[last'.copied[k][1]][last'.chan][last'.copied[k][2]]]_vars

\* C34: every blocking wait of ReceiveAndSet for a remote neighbor is on a
\* receive that StartReceive posted before and that no earlier wait completed:
\* the receive request of each direction waited on is a live handle of a posted
\* receive, never an unset request and never the null request an earlier wait
\* left behind.
C34_WaitsOnPostedReceive ==
  [][(Called("ReceiveAndSet") /\ last'.waited # <<>>) =>
       \A k \in DOMAIN last'.waited :
         LET h == req_recv[last'.blk][last'.chan][last'.waited[k]]
         IN  /\ h \in DOMAIN posts
             /\ posts[h].blk = last'.blk
             /\ posts[h].chan = last'.chan
             /\ posts[h].dir = last'.waited[k]]_vars

\* The storage indices of the receive range of direction d on channel c, from
\* the index tables.
RecvIndices(c, d) ==
  LET at == At(c, RecvCells(c, d), nx[1], nx[2], nx[3])
  IN  {at[p] : p \in DOMAIN at}
\* The (block, channel, direction) triples whose entry differs between f and g.
Changed(f, g) ==
  {x \in Gids \X Channels \X Dirs : f[x[1]][x[2]][x[3]] # g[x[1]][x[2]][x[3]]}

\* C35: frame of the fluid and field transfer operations. LoadAndSend(d) changes
\* no array, no send buffer but the caller's for (d, channel), and no receive
\* buffer or flag but, with a same-process neighbor, that neighbor's for
\* (oside(d), channel). ReceiveAndSet(d) changes no send or receive buffer, no
\* flag but the caller's for (d, channel), no array but the caller's array of the
\* channel, and there no element outside the receive range of d.
C35_TransferFrame ==
  [][LET b == last'.blk
         c == last'.chan
         d == last'.dir
         there == <<neighbor[b][d].gid, c, Oside(d)>>
     IN  /\ (Called("LoadAndSend") /\ c \in {"fluid", "field"}) =>
              /\ u' = u
              /\ Changed(send, send') \subseteq {<<b, c, d>>}
              /\ Changed(recv, recv') \subseteq {there}
              /\ Changed(flag, flag') \subseteq {there}
              /\ (recv' # recv \/ flag' # flag) => SameProcess(b, d)
         /\ (Called("ReceiveAndSet") /\ c \in {"fluid", "field"}) =>
              /\ send' = send /\ recv' = recv
              /\ Changed(flag, flag') \subseteq {<<b, c, d>>}
              /\ \A g \in Gids, cc \in Channels :
                   IF g = b /\ cc = c
                     THEN {a \in DOMAIN u[g][cc] : u'[g][cc][a] # u[g][cc][a]}
                            \subseteq RecvIndices(c, d)
                     ELSE u'[g][cc] = u[g][cc]]_vars

\* C35 witness: a ReceiveAndSet has just unpacked a buffer that a same-process
\* neighbor delivered: the caller's ghost cells of the direction hold the
\* neighbor's values, its flag of the direction is false, and a flag of the same
\* block and direction on another channel is still true.
C35_Witness ==
  /\ last.op = "ReceiveAndSet" /\ last.chan \in {"fluid", "field"} /\ ~crashed
  /\ last.unpacked = <<last.dir>>
  /\ SameProcess(last.blk, last.dir)
  /\ ~flag[last.blk][last.chan][last.dir]
  /\ \E cc \in Channels \ {last.chan} : flag[last.blk][cc][last.dir]
  /\ \E a \in RecvIndices(last.chan, last.dir) :
       u[last.blk][last.chan][a] \div 10000 = neighbor[last.blk][last.dir].gid

\* C36: an enrollment call that fails with a configuration error leaves the
\* handlers of all three channels as they were; a call that succeeds changes no
\* handler but the one of its channel and direction on the calling block; and
\* neither changes a buffer or a flag.
C36_EnrollFrame ==
  [][Called("Enroll") =>
       /\ last'.error # <<>> => bfunc' = bfunc
       /\ last'.error = <<>> =>
            Changed(bfunc, bfunc') \subseteq {<<last'.blk, last'.chan, last'.dir>>}
       /\ UNCHANGED <<send, recv, flag>>]_vars

\* C36 witness: a successful enrollment has just put the user handler on one
\* channel of a face whose handlers on the other two channels are not the
\* user's, on a block whose buffers are allocated.
C36_Witness ==
  /\ last.op = "Enroll" /\ last.error = <<>> /\ ~crashed
  /\ last.dir \in Dirs
  /\ bfunc[last.blk][last.chan][last.dir] = "user"
  /\ \A cc \in Channels \ {last.chan} : bfunc[last.blk][cc][last.dir] # "user"
  /\ \E d \in Dirs : recv[last.blk][last.chan][d] # <<>>

\* ------------------------------------------------------------------ corner
\* A block with a neighbor across a face d1 and another across a face d2 of a
\* different axis, the fluid exchanged once in either order: block 1 sends to
\* block 0 across d1, block 0 sends to block 2 across d2.
CornerGeoms == {<<2, 2, 1>>, <<2, 2, 2>>}
CornerLayouts == {<<0, 0, 0>>, <<0, 1, 0>>}
CornerNeighbor(ranks, d1, d2) ==
  LET lidOf(g) == Cardinality({h \in 0..2 : h < g /\ ranks[h + 1] = ranks[g + 1]})
      desc(g) == [gid |-> g, lid |-> lidOf(g), rank |-> ranks[g + 1]]
  IN  [g \in 0..2 |-> [d \in Dirs |->
        IF g = 0 /\ d = d1 THEN desc(1)
        ELSE IF g = 0 /\ d = d2 THEN desc(2)
        ELSE IF g = 1 /\ d = Oside(d1) THEN desc(0)
        ELSE IF g = 2 /\ d = Oside(d2) THEN desc(0)
        ELSE NoNeighbor]]
CornerBcs(nbr) ==
  [g \in 0..2 |-> [d \in Dirs |->
    IF nbr[g][d].gid # -1 THEN -1 ELSE IF d % 2 = 0 THEN 1 ELSE 2]]
Orders == {"d1 first", "d2 first"}
CornerTask(op, d, turn, s) ==
  [op |-> op, chan |-> "fluid", dir |-> d, flg |-> 0, turn |-> turn, sched |-> s]
CornerTasks(first, d1, d2) ==
  LET s == [first |-> first, d1 |-> d1, d2 |-> d2]
      early == first = "d1 first"
  IN  <<IF early
          THEN <<CornerTask("StartReceiving", -1, 0, s),
                 CornerTask("ReceiveAndSet", d1, 2, s),
                 CornerTask("LoadAndSend", d2, 3, s),
                 CornerTask("WaitSend", d2, 5, s)>>
          ELSE <<CornerTask("StartReceiving", -1, 0, s),
                 CornerTask("LoadAndSend", d2, 1, s),
                 CornerTask("ReceiveAndSet", d1, 3, s),
                 CornerTask("WaitSend", d2, 5, s)>>,
        <<CornerTask("LoadAndSend", Oside(d1), IF early THEN 1 ELSE 2, s),
          CornerTask("WaitSend", Oside(d1), 6, s)>>,
        <<CornerTask("StartReceiving", -1, 0, s),
          CornerTask("ReceiveAndSet", Oside(d2), 4, s)>>>>

InitCorner ==
  \E n \in CornerGeoms, ranks \in CornerLayouts, first \in Orders :
    \E d1 \in 0..(NDirAlloc(n[2], n[3]) - 1), d2 \in 0..(NDirAlloc(n[2], n[3]) - 1) :
      /\ d1 \div 2 # d2 \div 2
      /\ Constructed(n, ranks, CornerNeighbor(ranks, d1, d2),
                     CornerBcs(CornerNeighbor(ranks, d1, d2)))
      /\ tasks = [g \in 0..2 |-> CornerTasks(first, d1, d2)[g + 1]]

SpecCorner == InitCorner /\ [][NextProgress]_vars

\* The order and the two directions of the run.
CornerRun == tasks[0][1].sched
\* Block b has returned from its call of op.
Returned(b, op) ==
  ~crashed /\ \E k \in 1..pc[b] : tasks[b][k].op = op
\* The positions of the send buffer of d2 whose cell lies in the receive range
\* of d1.
Shared(d1, d2) ==
  LET at == SendAt("fluid", d2)
      ri == RecvIndices("fluid", d1)
  IN  {p \in DOMAIN at : at[p] \in ri}
\* What the neighbor across d1 delivers to the cell at storage index a.
Delivered(d1, a) ==
  LET rat == RecvAt("fluid", d1)
      q == CHOOSE q \in DOMAIN rat : rat[q] = a
  IN  Val(neighbor[0][d1].gid, SendAt("fluid", Oside(d1))[q])
\* The ghost cells of d1 hold what the neighbor across d1 sent.
GhostsSet(d1) ==
  \A q \in DOMAIN RecvAt("fluid", d1) :
    u[0]["fluid"][RecvAt("fluid", d1)[q]]
      = Val(neighbor[0][d1].gid, SendAt("fluid", Oside(d1))[q])

\* C37 (as stated): for two directions on different axes, the buffer
\* LoadAndSend(d2) packs after the exchange of d1 is complete is the buffer it
\* packs before that exchange, i.e. the send range of d2 of the array as it was
\* before the exchange, and the ghost cells of d1 end with the same values.
C37_OrderIndependent ==
  LET d1 == CornerRun.d1
      d2 == CornerRun.d2
      at == SendAt("fluid", d2)
  IN  /\ Returned(0, "LoadAndSend") =>
           \A p \in DOMAIN at : send[0]["fluid"][d2][p] = Val(0, at[p])
      /\ Returned(0, "ReceiveAndSet") => GhostsSet(d1)

\* C37 (amended): the send range of d2 meets the receive range of d1 exactly
\* when the axis of d2 is higher than the axis of d1. The buffer packed for d2
\* after the exchange of d1 holds, at those common cells, the values the
\* neighbor across d1 delivered and elsewhere the block's own values; packed
\* before the exchange of d1 it holds the block's own values throughout. The
\* ghost cells of d1 end with the same values in both orders.
C37_OrderLowerAxis ==
  LET d1 == CornerRun.d1
      d2 == CornerRun.d2
      at == SendAt("fluid", d2)
      sh == Shared(d1, d2)
  IN  /\ (sh # {}) <=> (NormalAxis(d2) > NormalAxis(d1))
      /\ Returned(0, "LoadAndSend") =>
           \A p \in DOMAIN at :
             send[0]["fluid"][d2][p] =
               IF CornerRun.first = "d1 first" /\ p \in sh
                 THEN Delivered(d1, at[p]) ELSE Val(0, at[p])
      /\ Returned(0, "ReceiveAndSet") => GhostsSet(d1)

\* C37 witness: the exchange of d1 was completed first, d2 is on a higher axis,
\* and the neighbor across d2 has unpacked into its ghost cells a value that
\* came from the neighbor across d1.
C37_Witness ==
  LET d1 == CornerRun.d1
      d2 == CornerRun.d2
  IN  /\ ~crashed
      /\ CornerRun.first = "d1 first"
      /\ NormalAxis(d2) > NormalAxis(d1)
      /\ \A g \in Gids : pc[g] = Len(tasks[g])
      /\ \E a \in DOMAIN u[2]["fluid"] : u[2]["fluid"][a] \div 10000 = 1
      /\ \E p \in Shared(d1, d2) : send[0]["fluid"][d2][p] \div 10000 = 1

\* C38: on the same-process path the walk over the block list ends at the
\* neighbor: whenever LoadAndSend is called for a direction whose neighbor
\* descriptor has a global id other than -1 and the rank of the calling process,
\* a block with that global id is in the list of that process, the call fails on
\* no missing block, and the copy and the flag write go to that block's buffer
\* and flag of the opposite face.
C38_NeighborFound ==
  [][Called("LoadAndSend") =>
       \A d \in CallDirs(last') :
         SameProcess(last'.blk, d) =>
           LET g == neighbor[last'.blk][d].gid
           IN  /\ g \in Gids
               /\ blocks[g].rank = blocks[last'.blk].rank
               /\ ~crashed'
               /\ Count(last'.copied, <<g, Oside(d)>>) = 1
               /\ flag'[g][last'.chan][Oside(d)]]_vars

\* C38 witness: the second block of a process's list has just copied its send
\* buffer to the head of the list, whose flag of the opposite face is set and
\* whose receive buffer holds the sender's values.
C38_Witness ==
  /\ last.op = "LoadAndSend" /\ ~crashed /\ last.blk = 1
  /\ \E d \in CallDirs(last) :
       /\ SameProcess(1, d)
       /\ neighbor[1][d].gid = 0
       /\ last.copied = <<<<0, Oside(d)>>>>
       /\ flag[0][last.chan][Oside(d)]
       /\ recv[0][last.chan][Oside(d)][1] \div 10000 = 1
====
